---- MODULE Spec2Model ----
(***************************************************************************)
(* Stellar ID generator (mahirliy55/stellar-id): the ID-generation         *)
(* function generateStellarID with its hash algorithms, validation, shared *)
(* hash cache and performance monitor.                                     *)
(*                                                                         *)
(* A JavaScript string is a sequence of UTF-16 code units.  A code unit is *)
(* written as a one-character TLA+ string ("A", "-", ...); the two code    *)
(* units outside ASCII that the model uses are written "U+0130" and        *)
(* "U+0307".  A JavaScript number is kept exact as a pair of limbs         *)
(* [hi, lo] standing for hi * 65536 + lo with lo in 0..65535, so that the  *)
(* 32-bit wrap-around of the bit operators is computed, not assumed.       *)
(***************************************************************************)
EXTENDS Integers, Sequences, FiniteSets, TLC

----------------------------------------------------------------------------
(* Code units.                                                             *)

\* String.prototype.charCodeAt for the code units of the model.
CharCode ==
  "\t" :> 9 @@ " " :> 32 @@ "!" :> 33 @@ "\"" :> 34 @@ "#" :> 35 @@
  "$" :> 36 @@ "%" :> 37 @@ "&" :> 38 @@ "'" :> 39 @@ "(" :> 40 @@
  ")" :> 41 @@ "*" :> 42 @@ "+" :> 43 @@ "," :> 44 @@ "-" :> 45 @@
  "." :> 46 @@ "/" :> 47 @@ "0" :> 48 @@ "1" :> 49 @@ "2" :> 50 @@
  "3" :> 51 @@ "4" :> 52 @@ "5" :> 53 @@ "6" :> 54 @@ "7" :> 55 @@
  "8" :> 56 @@ "9" :> 57 @@ ":" :> 58 @@ ";" :> 59 @@ "<" :> 60 @@
  "=" :> 61 @@ ">" :> 62 @@ "?" :> 63 @@ "@" :> 64 @@ "A" :> 65 @@
  "B" :> 66 @@ "C" :> 67 @@ "D" :> 68 @@ "E" :> 69 @@ "F" :> 70 @@
  "G" :> 71 @@ "H" :> 72 @@ "I" :> 73 @@ "J" :> 74 @@ "K" :> 75 @@
  "L" :> 76 @@ "M" :> 77 @@ "N" :> 78 @@ "O" :> 79 @@ "P" :> 80 @@
  "Q" :> 81 @@ "R" :> 82 @@ "S" :> 83 @@ "T" :> 84 @@ "U" :> 85 @@
  "V" :> 86 @@ "W" :> 87 @@ "X" :> 88 @@ "Y" :> 89 @@ "Z" :> 90 @@
  "[" :> 91 @@ "\\" :> 92 @@ "]" :> 93 @@ "^" :> 94 @@ "_" :> 95 @@ "U+0060" :> 96 @@
  "a" :> 97 @@ "b" :> 98 @@ "c" :> 99 @@ "d" :> 100 @@
  "e" :> 101 @@ "f" :> 102 @@ "g" :> 103 @@ "h" :> 104 @@ "i" :> 105 @@
  "j" :> 106 @@ "k" :> 107 @@ "l" :> 108 @@ "m" :> 109 @@ "n" :> 110 @@
  "o" :> 111 @@ "p" :> 112 @@ "q" :> 113 @@ "r" :> 114 @@ "s" :> 115 @@
  "t" :> 116 @@ "u" :> 117 @@ "v" :> 118 @@ "w" :> 119 @@ "x" :> 120 @@
  "y" :> 121 @@ "z" :> 122 @@ "{" :> 123 @@ "|" :> 124 @@ "}" :> 125 @@
  "~" :> 126 @@ "U+0130" :> 304 @@ "U+0307" :> 775


Chars == DOMAIN CharCode

\* The concatenation of a sequence of strings.
RECURSIVE Concat(_)
Concat(ss) == IF ss = <<>> THEN <<>> ELSE Head(ss) \o Concat(Tail(ss))

\* s.substring(0, n) for 0 <= n.
Substring0(s, n) == IF n >= Len(s) THEN s ELSE SubSeq(s, 1, n)

----------------------------------------------------------------------------
(* JavaScript numbers and the 32-bit bit operators.                        *)

Limb == 65536
HalfLimb == 32768

\* The number hi * 65536 + loRaw, with the low limb brought into 0..65535.
Norm(hi, loRaw) == [hi |-> hi + (loRaw \div Limb), lo |-> loRaw % Limb]

Num(n) == Norm(0, n)

NumAdd(a, b) == Norm(a.hi + b.hi, a.lo + b.lo)

NumSub(a, b) == Norm(a.hi - b.hi, a.lo - b.lo)

\* ToInt32 of ECMAScript: the value modulo 2^32, read as a signed integer.
ToInt32(a) == [hi |-> ((a.hi + HalfLimb) % Limb) - HalfLimb, lo |-> a.lo]

Pow2(k) == CASE k = 0 -> 1 [] k = 1 -> 2 [] k = 4 -> 16 [] k = 5 -> 32
             [] k = 7 -> 128 [] k = 8 -> 256

\* a << k : ToInt32(a) shifted left by k bits, wrapped to 32 bits, signed.
ShiftLeft(a, k) ==
  IF k >= 16
    THEN ToInt32([hi |-> (a.lo * Pow2(k - 16)) % Limb, lo |-> 0])
    ELSE LET lo2 == a.lo * Pow2(k)
             hi2 == (a.hi % Limb) * Pow2(k) + (lo2 \div Limb)
         IN  ToInt32([hi |-> hi2 % Limb, lo |-> lo2 % Limb])

\* Bitwise operators on one 16-bit limb.
RECURSIVE And16(_, _, _)
And16(x, y, bits) ==
  IF bits = 0 THEN 0
  ELSE 2 * And16(x \div 2, y \div 2, bits - 1)
         + (IF x % 2 = 1 /\ y % 2 = 1 THEN 1 ELSE 0)

RECURSIVE Xor16(_, _, _)
Xor16(x, y, bits) ==
  IF bits = 0 THEN 0
  ELSE 2 * Xor16(x \div 2, y \div 2, bits - 1)
         + (IF x % 2 # y % 2 THEN 1 ELSE 0)

\* a & b and a ^ b : both operands through ToInt32, the result signed.
BitAnd(a, b) ==
  ToInt32([hi |-> And16(a.hi % Limb, b.hi % Limb, 16),
           lo |-> And16(a.lo, b.lo, 16)])

BitXor(a, b) ==
  ToInt32([hi |-> Xor16(a.hi % Limb, b.hi % Limb, 16),
           lo |-> Xor16(a.lo, b.lo, 16)])

\* The value passed on without Math.abs.
MathAbsMissing(a) == a

\* Math.abs
MathAbs(a) == IF a.hi < 0 THEN NumSub(Num(0), a) ELSE a

\* The remainder operator of JavaScript on integers, n % m for m > 0: the
\* result has the sign of the dividend.
JsRem(n, m) == IF n < 0 THEN 0 - ((0 - n) % m) ELSE n % m

\* a % m for 0 < m <= 10000.
NumMod(a, m) ==
  IF a.hi < 0
    THEN LET b == NumSub(Num(0), a)
         IN  0 - (((b.hi % m) * (Limb % m) + b.lo) % m)
    ELSE ((a.hi % m) * (Limb % m) + a.lo) % m

IsNonNegative(a) == a.hi >= 0

----------------------------------------------------------------------------
(* Hash algorithms (the computation without the cache).                    *)

\* The loop body that adds the hash to the shifted hash.
simpleHashStepPlus(hash, c) ==
  LET char == Num(CharCode[c])
      h1   == NumAdd(NumAdd(ShiftLeft(hash, 5), hash), char)
  IN  BitAnd(h1, h1)

\* simpleHash, loop body: hash = ((hash << 5) - hash) + char;
\* hash = hash & hash.
simpleHashStep(hash, c) ==
  LET char == Num(CharCode[c])
      h1   == NumAdd(NumSub(ShiftLeft(hash, 5), hash), char)
  IN  BitAnd(h1, h1)

\* djb2Hash, loop body: hash = ((hash << 5) + hash) + input.charCodeAt(i);
\* the sum is not wrapped to 32 bits.
djb2HashStep(hash, c) ==
  NumAdd(NumAdd(ShiftLeft(hash, 5), hash), Num(CharCode[c]))

\* 0x811c9dc5
FnvOffsetBasis == [hi |-> 33052, lo |-> 40389]

\* fnv1aHash, loop body: hash ^= charCode;
\* hash += (hash<<1) + (hash<<4) + (hash<<7) + (hash<<8) + (hash<<24).
fnv1aHashStep(hash, c) ==
  LET h1 == BitXor(hash, Num(CharCode[c]))
      sh == NumAdd(NumAdd(NumAdd(NumAdd(ShiftLeft(h1, 1),
              ShiftLeft(h1, 4)), ShiftLeft(h1, 7)), ShiftLeft(h1, 8)),
              ShiftLeft(h1, 24))
  IN  NumAdd(h1, sh)

\* The loop body of the hash function named algorithm.
HashStep(algorithm, hash, c) ==
  CASE algorithm = "simple" -> simpleHashStep(hash, c)
    [] algorithm = "djb2"   -> djb2HashStep(hash, c)
    [] algorithm = "fnv1a"  -> fnv1aHashStep(hash, c)

\* for (let i = 0; i < len; i++) hash = HashStep(algorithm, hash, input[i]),
\* run over the code units from..to (1-based) in order, starting from hash.
\* The range is run as its first half followed by its second half; the test
\* on the first half's result has it evaluated before the second half
\* starts, which keeps the evaluation depth logarithmic in the length.
RECURSIVE ForEachChar(_, _, _, _, _)
ForEachChar(algorithm, input, from, to, hash) ==
  IF from > to THEN hash
  ELSE IF from = to THEN HashStep(algorithm, hash, input[from])
  ELSE LET mid  == (from + to) \div 2
           left == ForEachChar(algorithm, input, from, mid, hash)
       IN  IF left.lo >= 0
             THEN ForEachChar(algorithm, input, mid + 1, to, left)
             ELSE left

simpleHashCompute(input) ==
  MathAbs(ForEachChar("simple", input, 1, Len(input), Num(0)))

djb2HashCompute(input) ==
  MathAbs(ForEachChar("djb2", input, 1, Len(input), Num(5381)))

fnv1aHashCompute(input) ==
  MathAbs(ForEachChar("fnv1a", input, 1, Len(input), FnvOffsetBasis))

----------------------------------------------------------------------------
(* String helpers of the JavaScript runtime.                               *)

Digits == <<"0", "1", "2", "3", "4", "5", "6", "7", "8", "9">>

UpperLetters ==
  {"A", "B", "C", "D", "E", "F", "G", "H", "I", "J", "K", "L", "M",
   "N", "O", "P", "Q", "R", "S", "T", "U", "V", "W", "X", "Y", "Z"}

LowerLetters ==
  {"a", "b", "c", "d", "e", "f", "g", "h", "i", "j", "k", "l", "m",
   "n", "o", "p", "q", "r", "s", "t", "u", "v", "w", "x", "y", "z"}

DigitChars == {Digits[i] : i \in 1..10}

WhiteSpace == {" ", "\t"}

\* Number.prototype.toString for an integer.
RECURSIVE NumberToString(_)
NumberToString(n) ==
  IF n < 0 THEN <<"-">> \o NumberToString(0 - n)
  ELSE IF n < 10 THEN <<Digits[n + 1]>>
  ELSE NumberToString(n \div 10) \o <<Digits[(n % 10) + 1]>>

\* What appending array[index] or string[index] (0-based) to a string
\* appends: the element, or the text "undefined" when index is out of range.
Undefined == <<"u", "n", "d", "e", "f", "i", "n", "e", "d">>

ElementText(array, index) ==
  IF index >= 0 /\ index < Len(array) THEN array[index + 1] ELSE Undefined

CharText(string, index) ==
  IF index >= 0 /\ index < Len(string) THEN <<string[index + 1]>>
  ELSE Undefined

\* String.prototype.padStart with a one-unit pad string.
PadStart(s, targetLength, padChar) ==
  IF Len(s) >= targetLength THEN s
  ELSE [i \in 1..(targetLength - Len(s)) |-> padChar] \o s

\* String.prototype.trim.
RECURSIVE TrimStart(_)
TrimStart(s) ==
  IF s # <<>> /\ Head(s) \in WhiteSpace THEN TrimStart(Tail(s)) ELSE s

RECURSIVE TrimEnd(_)
TrimEnd(s) ==
  IF s # <<>> /\ s[Len(s)] \in WhiteSpace
    THEN TrimEnd(SubSeq(s, 1, Len(s) - 1)) ELSE s

Trim(s) == TrimEnd(TrimStart(s))

\* String.prototype.toLowerCase, one code unit at a time: A-Z go to a-z and
\* U+0130 (capital I with dot above) goes to the two units "i" U+0307; the
\* other units of the model have no lower-case mapping.
LowerOfChar(c) ==
  IF c \in UpperLetters
    THEN <<CHOOSE l \in LowerLetters : CharCode[l] = CharCode[c] + 32>>
    ELSE IF c = "U+0130" THEN <<"i", "U+0307">> ELSE <<c>>

ToLowerCase(s) == Concat([i \in 1..Len(s) |-> LowerOfChar(s[i])])

\* The 1-based position of the first occurrence of pattern in s, 0 if none.
IndexOf(s, pattern) ==
  LET hits == {i \in 1..(Len(s) - Len(pattern) + 1) :
                 SubSeq(s, i, i + Len(pattern) - 1) = pattern}
  IN  IF hits = {} THEN 0
      ELSE CHOOSE i \in hits : \A j \in hits : i <= j

\* GetSubstitution of ECMAScript for a string pattern (no capture groups):
\* in the replacement text $$ stands for $, $& for the matched text,
\* $` for the text before the match and $' for the text after it.
RECURSIVE GetSubstitution(_, _, _, _)
GetSubstitution(replacement, matched, before, after) ==
  IF replacement = <<>> THEN <<>>
  ELSE IF Head(replacement) = "$" /\ Len(replacement) >= 2
            /\ replacement[2] \in {"$", "&", "U+0060", "'"}
    THEN (CASE replacement[2] = "$" -> <<"$">>
            [] replacement[2] = "&" -> matched
            [] replacement[2] = "U+0060" -> before
            [] replacement[2] = "'" -> after)
         \o GetSubstitution(SubSeq(replacement, 3, Len(replacement)),
                            matched, before, after)
    ELSE <<Head(replacement)>>
         \o GetSubstitution(Tail(replacement), matched, before, after)

\* String.prototype.replace(pattern, replacement) with a string pattern: the
\* first occurrence only.
Replace(s, pattern, replacement) ==
  LET at == IndexOf(s, pattern)
  IN  IF at = 0 THEN s
      ELSE LET before == SubSeq(s, 1, at - 1)
               after  == SubSeq(s, at + Len(pattern), Len(s))
           IN  before \o GetSubstitution(replacement, pattern, before, after)
                 \o after

----------------------------------------------------------------------------
(* Values and options.                                                     *)

\* The values a caller can pass as input: a string, or null.
StringValue(s) == [type |-> "string", str |-> s]
NullValue == [type |-> "null", str |-> <<>>]

\* StellarIDOptions.  An absent optional field is has... = FALSE (its value
\* is then unused), or "undefined" for the two enumerations; useSpecialChars
\* and enableCache carry the value after their defaults.
DefaultOptions ==
  [hasPrefix |-> FALSE, prefix |-> <<>>,
   hasLength |-> FALSE, length |-> 0,
   useSpecialChars |-> FALSE,
   caseOption |-> "undefined",
   hashAlgorithm |-> "undefined",
   hasCustomStarNames |-> FALSE, customStarNames |-> <<>>,
   hasFormat |-> FALSE, format |-> <<>>,
   hasSalt |-> FALSE, salt |-> <<>>,
   enableCache |-> TRUE]

CACHE_SIZE == 1000

MaxInputLength == 1000
MinLength == 1
MaxLength == 100
MaxPrefixLength == 20
MaxSaltLength == 100

NoError == "none"

PrefixChars == UpperLetters \cup LowerLetters \cup DigitChars \cup {"_", "-"}

\* /^[A-Za-z0-9_-]+$/.test(prefix)
PrefixPatternTest(prefix) ==
  /\ Len(prefix) >= 1
  /\ \A i \in 1..Len(prefix) : prefix[i] \in PrefixChars

\* validateInput with the length test off by one (>= for >).
validateInputOffByOne(input) ==
  IF input.type # "string" \/ input.str = <<>>
    THEN "Input must be a non-empty string"
  ELSE IF Len(input.str) >= MaxInputLength
    THEN "Input length must be less than 1000 characters"
  ELSE IF Len(Trim(input.str)) = 0
    THEN "Input cannot be empty or contain only whitespace"
  ELSE NoError

\* validateInput: the message of the error thrown, NoError if none.
validateInput(input) ==
  IF input.type # "string" \/ input.str = <<>>
    THEN "Input must be a non-empty string"
  ELSE IF Len(input.str) > MaxInputLength
    THEN "Input length must be less than 1000 characters"
  ELSE IF Len(Trim(input.str)) = 0
    THEN "Input cannot be empty or contain only whitespace"
  ELSE NoError

\* validateOptions with the length guarded by truthiness (options.length &&)
\* in place of the comparison with undefined.
validateOptionsTruthyLength(options) ==
  IF (options.hasLength /\ options.length # 0)
       /\ (options.length < MinLength \/ options.length > MaxLength)
    THEN "Length must be between 1 and 100"
  ELSE IF (options.hasPrefix /\ options.prefix # <<>>)
       /\ (Len(options.prefix) > MaxPrefixLength
             \/ ~PrefixPatternTest(options.prefix))
    THEN "Prefix must be alphanumeric, underscore, or hyphen, max 20 characters"
  ELSE IF options.hasCustomStarNames /\ Len(options.customStarNames) = 0
    THEN "Custom star names must be a non-empty array"
  ELSE IF (options.hasSalt /\ options.salt # <<>>)
       /\ Len(options.salt) > MaxSaltLength
    THEN "Salt must be less than 100 characters"
  ELSE IF options.hashAlgorithm # "undefined"
       /\ options.hashAlgorithm \notin {"simple", "djb2", "fnv1a"}
    THEN "Hash algorithm must be one of: simple, djb2, fnv1a"
  ELSE IF options.caseOption # "undefined"
       /\ options.caseOption \notin {"upper", "lower", "mixed"}
    THEN "Case must be one of: upper, lower, mixed"
  ELSE NoError

\* validateOptions: the message of the error thrown, NoError if none.
validateOptions(options) ==
  IF options.hasLength
       /\ (options.length < MinLength \/ options.length > MaxLength)
    THEN "Length must be between 1 and 100"
  ELSE IF (options.hasPrefix /\ options.prefix # <<>>)
       /\ (Len(options.prefix) > MaxPrefixLength
             \/ ~PrefixPatternTest(options.prefix))
    THEN "Prefix must be alphanumeric, underscore, or hyphen, max 20 characters"
  ELSE IF options.hasCustomStarNames /\ Len(options.customStarNames) = 0
    THEN "Custom star names must be a non-empty array"
  ELSE IF (options.hasSalt /\ options.salt # <<>>)
       /\ Len(options.salt) > MaxSaltLength
    THEN "Salt must be less than 100 characters"
  ELSE IF options.hashAlgorithm # "undefined"
       /\ options.hashAlgorithm \notin {"simple", "djb2", "fnv1a"}
    THEN "Hash algorithm must be one of: simple, djb2, fnv1a"
  ELSE IF options.caseOption # "undefined"
       /\ options.caseOption \notin {"upper", "lower", "mixed"}
    THEN "Case must be one of: upper, lower, mixed"
  ELSE NoError

----------------------------------------------------------------------------
(* The hash functions with the shared cache.  hashCache is a function from *)
(* the cached texts to their hash values; each operator returns the value  *)
(* returned and the cache afterwards.                                      *)

EmptyCache == [k \in {} |-> Num(0)]

CacheSet(cache, key, value) ==
  [k \in (DOMAIN cache) \cup {key} |-> IF k = key THEN value ELSE cache[k]]

\* simpleHash without the test of the cache's size before the insertion.
simpleHashUnbounded(cache, input, enableCache) ==
  IF enableCache /\ input \in DOMAIN cache
    THEN [result |-> cache[input], cache |-> cache]
    ELSE [result |-> simpleHashCompute(input),
          cache  |-> IF enableCache
                       THEN CacheSet(cache, input, simpleHashCompute(input))
                       ELSE cache]

simpleHash(cache, input, enableCache) ==
  IF enableCache /\ input \in DOMAIN cache
    THEN [result |-> cache[input], cache |-> cache]
    ELSE LET result == simpleHashCompute(input)
         IN  [result |-> result,
              cache  |-> IF enableCache
                              /\ Cardinality(DOMAIN cache) < CACHE_SIZE
                           THEN CacheSet(cache, input, result)
                           ELSE cache]

djb2Hash(cache, input, enableCache) ==
  IF enableCache /\ input \in DOMAIN cache
    THEN [result |-> cache[input], cache |-> cache]
    ELSE LET result == djb2HashCompute(input)
         IN  [result |-> result,
              cache  |-> IF enableCache
                              /\ Cardinality(DOMAIN cache) < CACHE_SIZE
                           THEN CacheSet(cache, input, result)
                           ELSE cache]

fnv1aHash(cache, input, enableCache) ==
  IF enableCache /\ input \in DOMAIN cache
    THEN [result |-> cache[input], cache |-> cache]
    ELSE LET result == fnv1aHashCompute(input)
         IN  [result |-> result,
              cache  |-> IF enableCache
                              /\ Cardinality(DOMAIN cache) < CACHE_SIZE
                           THEN CacheSet(cache, input, result)
                           ELSE cache]

----------------------------------------------------------------------------
(* generateStellarID.                                                      *)

defaultStarNames ==
  << <<"S", "I", "R", "I", "U", "S">>,
     <<"V", "E", "G", "A">>,
     <<"A", "L", "T", "A", "I", "R">>,
     <<"R", "I", "G", "E", "L">>,
     <<"A", "N", "T", "A", "R", "E", "S">>,
     <<"A", "L", "D", "E", "B", "A", "R", "A", "N">>,
     <<"B", "E", "T", "E", "L", "G", "E", "U", "S", "E">>,
     <<"A", "R", "C", "T", "U", "R", "U", "S">>,
     <<"P", "O", "L", "L", "U", "X">>,
     <<"D", "E", "N", "E", "B">> >>

DefaultPrefix == <<"S", "T", "A", "R">>

\* 'ABCDEFGHIJKLMNOPQRSTUVWXYZ0123456789'
AlnumChars ==
  <<"A", "B", "C", "D", "E", "F", "G", "H", "I", "J", "K", "L", "M",
    "N", "O", "P", "Q", "R", "S", "T", "U", "V", "W", "X", "Y", "Z",
    "0", "1", "2", "3", "4", "5", "6", "7", "8", "9">>

\* '!@#$%^&*()_+-=[]{}|;:,.<>?'
specialChars ==
  <<"!", "@", "#", "$", "%", "^", "&", "*", "(", ")", "_", "+", "-",
    "=", "[", "]", "{", "}", "|", ";", ":", ",", ".", "<", ">", "?">>

extraCharsOf(useSpecialChars) ==
  IF useSpecialChars THEN AlnumChars \o specialChars ELSE AlnumChars

TokenPrefix == <<"{", "p", "r", "e", "f", "i", "x", "}">>
TokenHash   == <<"{", "h", "a", "s", "h", "}">>
TokenStar   == <<"{", "s", "t", "a", "r", "}">>
TokenInput  == <<"{", "i", "n", "p", "u", "t", "}">>

AlgorithmName(hashAlgorithm) ==
  CASE hashAlgorithm = "simple" -> <<"s", "i", "m", "p", "l", "e">>
    [] hashAlgorithm = "djb2"   -> <<"d", "j", "b", "2">>
    [] hashAlgorithm = "fnv1a"  -> <<"f", "n", "v", "1", "a">>

\* The switch on hashAlgorithm.
HashWith(cache, hashAlgorithm, saltedInput, enableCache) ==
  CASE hashAlgorithm = "djb2"  -> djb2Hash(cache, saltedInput, enableCache)
    [] hashAlgorithm = "fnv1a" -> fnv1aHash(cache, saltedInput, enableCache)
    [] OTHER                   -> simpleHash(cache, saltedInput, enableCache)

\* hash % 10000
HashModulus == 10000

\* The hash field without the padding.
HashFieldUnpadded(hashNumber) == NumberToString(hashNumber)

\* hashNumber.toString().padStart(4, '0')
HashField(hashNumber) == PadStart(NumberToString(hashNumber), 4, "0")

\* while (id.length < length) id += extraChars[(hashNumber + id.length) % n]
RECURSIVE PadLoop(_, _, _, _)
PadLoop(id, length, hashNumber, extraChars) ==
  IF Len(id) < length
    THEN PadLoop(id \o CharText(extraChars,
                                JsRem(hashNumber + Len(id), Len(extraChars))),
                 length, hashNumber, extraChars)
    ELSE id

\* The padding that repeats the character at index hashNumber mod n.
NormalizeLengthFixedIndex(id, options, hashNumber) ==
  IF options.hasLength /\ options.length # 0 /\ options.length > 0
    THEN IF Len(id) > options.length
           THEN Substring0(id, options.length)
           ELSE id \o [i \in 1..(options.length - Len(id)) |->
                         CharText(extraCharsOf(options.useSpecialChars),
                                  JsRem(hashNumber,
                                        Len(extraCharsOf(
                                              options.useSpecialChars))))[1]]
    ELSE id

\* if (length && length > 0) { truncate or pad }
NormalizeLength(id, options, hashNumber) ==
  IF options.hasLength /\ options.length # 0 /\ options.length > 0
    THEN IF Len(id) > options.length
           THEN Substring0(id, options.length)
           ELSE PadLoop(id, options.length, hashNumber,
                        extraCharsOf(options.useSpecialChars))
    ELSE id

\* The mixed case that lowers the letters at the odd indexes.
MixedCaseOddIndex(id) ==
  Concat([i \in 1..Len(id) |->
            IF (i - 1) % 2 = 1 /\ id[i] \in UpperLetters
              THEN LowerOfChar(id[i]) ELSE <<id[i]>>])

\* case 'mixed': index even (0-based) and /[A-Z]/ -> lower case.
MixedCase(id) ==
  Concat([i \in 1..Len(id) |->
            IF (i - 1) % 2 = 0 /\ id[i] \in UpperLetters
              THEN LowerOfChar(id[i]) ELSE <<id[i]>>])

ApplyCase(id, caseOption) ==
  CASE caseOption = "lower" -> ToLowerCase(id)
    [] caseOption = "mixed" -> MixedCase(id)
    [] OTHER                -> id

\* for (let i = 0; i < id.length; i++) { if (id.length >= length) break;
\*   if ((hash + i) % 5 === 0) id[i] = specialChars[(hash + i) % 26] }
\* i is 0-based.
RECURSIVE SpecialCharsLoop(_, _, _, _)
SpecialCharsLoop(id, i, length, hash) ==
  IF i >= Len(id) \/ Len(id) >= length THEN id
  ELSE LET hi == NumAdd(hash, Num(i))
           id2 == IF NumMod(hi, 5) = 0
                    THEN SubSeq(id, 1, i)
                           \o CharText(specialChars,
                                       NumMod(hi, Len(specialChars)))
                           \o SubSeq(id, i + 2, Len(id))
                    ELSE id
       IN  SpecialCharsLoop(id2, i + 1, length, hash)

ApplySpecialChars(id, options, hash) ==
  IF options.useSpecialChars /\ options.hasLength
    THEN Substring0(SpecialCharsLoop(id, 0, options.length, hash),
                    options.length)
    ELSE id

\* The ID assembled from the template or in the default format.
AssembleID(input, options, prefix, hashString, starName) ==
  IF options.hasFormat /\ options.format # <<>>
    THEN Replace(Replace(Replace(Replace(options.format,
           TokenPrefix, prefix), TokenHash, hashString),
           TokenStar, starName), TokenInput, Substring0(input, 10))
    ELSE Concat(<<prefix, <<"-">>, hashString, <<"-">>, starName>>)

\* const starNames = customStarNames && customStarNames.length > 0
\*   ? customStarNames : defaultStarNames
ActiveStarNames(options) ==
  IF options.hasCustomStarNames /\ Len(options.customStarNames) > 0
    THEN options.customStarNames ELSE defaultStarNames

\* The index taken modulo the length of the default list, whatever list is
\* active.
StarIndexDefaultLength(options, hashNumber) ==
  JsRem(hashNumber, Len(defaultStarNames))

\* const starIndex = hashNumber % starNames.length
StarIndex(options, hashNumber) ==
  JsRem(hashNumber, Len(ActiveStarNames(options)))

\* const starName = starNames[starIndex]
StarName(options, hashNumber) ==
  ElementText(ActiveStarNames(options), StarIndex(options, hashNumber))

\* The destructuring defaults of prefix, case and hashAlgorithm.
PrefixOf(options) ==
  IF options.hasPrefix THEN options.prefix ELSE DefaultPrefix

CaseOf(options) ==
  IF options.caseOption = "undefined" THEN "upper" ELSE options.caseOption

AlgorithmOf(options) ==
  IF options.hashAlgorithm = "undefined" THEN "simple"
  ELSE options.hashAlgorithm

\* The salt put before the input.
SaltedInputPrepended(input, options) ==
  IF options.hasSalt /\ options.salt # <<>>
    THEN options.salt \o input ELSE input

\* const saltedInput = salt ? `${input}${salt}` : input
SaltedInput(input, options) ==
  IF options.hasSalt /\ options.salt # <<>>
    THEN input \o options.salt ELSE input

\* const cacheKey = `${hashAlgorithm}:${saltedInput}`
CacheKey(input, options) ==
  AlgorithmName(AlgorithmOf(options)) \o <<":">> \o SaltedInput(input, options)

\* The ID after "Create ID", the length normalisation and the case switch,
\* before the special characters.
CaseNormalizedID(input, options, hashNumber) ==
  ApplyCase(
    NormalizeLength(
      AssembleID(input, options, PrefixOf(options), HashField(hashNumber),
                 StarName(options, hashNumber)),
      options, hashNumber),
    CaseOf(options))

\* The body from "Create ID" to the special characters, for the text `input`,
\* the hash value `hash` and hashNumber = hash % 10000.
FormatID(input, options, hash, hashNumber) ==
  ApplySpecialChars(
    ApplyCase(
      NormalizeLength(
        AssembleID(input, options, PrefixOf(options), HashField(hashNumber),
                   StarName(options, hashNumber)),
        options, hashNumber),
      CaseOf(options)),
    options, hash)

\* What a call that threw leaves: the error and the cache untouched.
Thrown(error, cache) ==
  [error |-> error, id |-> <<>>, cache |-> cache, cacheHit |-> FALSE,
   hash |-> Num(0), hashNumber |-> 0, starIndex |-> 0, starName |-> <<>>]

\* What a call that returned leaves, from the outcome `hashed` of the hash
\* function: the ID, the cache after the hash function ran, the cacheHit
\* flag given to recordGeneration, and the locals hash, hashNumber, starIndex
\* and starName.
Returned(input, options, hashed) ==
  [error |-> NoError,
   id |-> FormatID(input, options, hashed.result,
                   NumMod(hashed.result, HashModulus)),
   cache |-> hashed.cache,
   cacheHit |-> CacheKey(input, options) \in DOMAIN hashed.cache,
   hash |-> hashed.result,
   hashNumber |-> NumMod(hashed.result, HashModulus),
   starIndex |-> StarIndex(options, NumMod(hashed.result, HashModulus)),
   starName |-> StarName(options, NumMod(hashed.result, HashModulus))]

\* generateStellarID(input, options) run on the cache `cache`.
generateStellarID(cache, input, options) ==
  IF validateInput(input) # NoError
    THEN Thrown(validateInput(input), cache)
  ELSE IF validateOptions(options) # NoError
    THEN Thrown(validateOptions(options), cache)
  ELSE Returned(input.str, options,
                HashWith(cache, AlgorithmOf(options),
                         SaltedInput(input.str, options),
                         options.enableCache))

\* generateStellarIDAsync(input, options) run on the cache `cache`: the
\* statements of generateStellarID without enableCache (the hash functions
\* are called with their default, enableCache = true), without cacheKey and
\* cacheHit and without recordGeneration.
generateStellarIDAsync(cache, input, options) ==
  [generateStellarID(cache, input, [options EXCEPT !.enableCache = TRUE])
     EXCEPT !.cacheHit = FALSE]

----------------------------------------------------------------------------
(* Utility functions.                                                      *)

IDPrefixChars == UpperLetters \cup DigitChars \cup {"_", "-"}

\* validateStellarID with a pattern that ignores case (the flag i).
validateStellarIDIgnoreCase(id) ==
  \E p \in 2..Len(id) :
    /\ p + 6 <= Len(id)
    /\ id[p] = "-"
    /\ \A i \in 1..(p - 1) : id[i] \in IDPrefixChars \cup LowerLetters
    /\ \A i \in (p + 1)..(p + 4) : id[i] \in DigitChars
    /\ id[p + 5] = "-"
    /\ \A i \in (p + 6)..Len(id) : id[i] \in UpperLetters \cup LowerLetters

\* /^[A-Z0-9_-]+-\d{4}-[A-Z]+$/.test(id): some "-" at position p ends a
\* non-empty run of [A-Z0-9_-], four digits and "-" follow it, and the rest
\* is a non-empty run of A-Z up to the end of the text.
validateStellarID(id) ==
  \E p \in 2..Len(id) :
    /\ p + 6 <= Len(id)
    /\ id[p] = "-"
    /\ \A i \in 1..(p - 1) : id[i] \in IDPrefixChars
    /\ \A i \in (p + 1)..(p + 4) : id[i] \in DigitChars
    /\ id[p + 5] = "-"
    /\ \A i \in (p + 6)..Len(id) : id[i] \in UpperLetters

\* String.prototype.split('-'): the texts between the hyphens.
RECURSIVE Split(_)
Split(s) ==
  IF IndexOf(s, <<"-">>) = 0 THEN <<s>>
  ELSE <<SubSeq(s, 1, IndexOf(s, <<"-">>) - 1)>>
         \o Split(SubSeq(s, IndexOf(s, <<"-">>) + 1, Len(s)))

NullParts == [isNull |-> TRUE, prefix |-> <<>>, hash |-> <<>>, starName |-> <<>>]

PartsOf(parts) ==
  IF Len(parts) >= 3
    THEN [isNull |-> FALSE, prefix |-> parts[1], hash |-> parts[2],
          starName |-> parts[3]]
    ELSE NullParts

\* extractStellarIDParts(id): null, or the first three texts of the split.
extractStellarIDParts(id) ==
  IF ~validateStellarID(id) THEN NullParts ELSE PartsOf(Split(id))

\* getStellarIDCacheStats() on the two maps.
getStellarIDCacheStats(hashes, starNames) ==
  [hashCacheSize      |-> Cardinality(DOMAIN hashes),
   starNamesCacheSize |-> Cardinality(DOMAIN starNames),
   totalCacheSize     |-> Cardinality(DOMAIN hashes)
                            + Cardinality(DOMAIN starNames),
   maxCacheSize       |-> CACHE_SIZE]

----------------------------------------------------------------------------
(* The URL shortener: generateStellarURL and extractStellarIDFromURL.      *)

\* A URLShortenerConfig: each optional text with a flag for its presence.
\* expiresIn decides only expiresAt, a date, which the model leaves out with
\* qrCode, trackingId and createdAt.
DefaultConfig ==
  [hasDomain |-> FALSE, domain |-> <<>>,
   hasSubdomain |-> FALSE, subdomain |-> <<>>,
   hasPath |-> FALSE, path |-> <<>>,
   hasPassword |-> FALSE, password |-> <<>>,
   analytics |-> TRUE]

\* domain = 'stellar.id'
DefaultDomain == <<"s", "t", "e", "l", "l", "a", "r", ".", "i", "d">>

HttpsScheme == <<"h", "t", "t", "p", "s", ":", "/", "/">>

PasswordQuery == <<"?", "p", "=">>

InvalidStellarID == "Invalid Stellar ID provided"

HexDigits ==
  <<"0", "1", "2", "3", "4", "5", "6", "7", "8", "9",
    "A", "B", "C", "D", "E", "F">>

\* The characters encodeURIComponent leaves as they are.
UriUnreserved ==
  UpperLetters \cup LowerLetters \cup DigitChars
    \cup {"-", "_", ".", "!", "~", "*", "'", "(", ")"}

\* encodeURIComponent(s) for ASCII text: every other character becomes "%"
\* and the two hexadecimal digits of its code.
encodeURIComponent(s) ==
  Concat([i \in 1..Len(s) |->
            IF s[i] \in UriUnreserved THEN <<s[i]>>
            ELSE <<"%", HexDigits[(CharCode[s[i]] \div 16) + 1],
                        HexDigits[(CharCode[s[i]] % 16) + 1]>>])

\* The short URL without the check of the ID.
ShortUrlOf(stellarId, config) ==
  Concat(<<HttpsScheme,
           IF config.hasSubdomain /\ config.subdomain # <<>>
             THEN config.subdomain \o <<".">>
                    \o (IF config.hasDomain THEN config.domain
                        ELSE DefaultDomain)
             ELSE IF config.hasDomain THEN config.domain ELSE DefaultDomain,
           IF config.hasPath /\ config.path # <<>>
             THEN <<"/">> \o config.path ELSE <<>>,
           <<"/">> \o stellarId,
           IF config.hasPassword /\ config.password # <<>>
             THEN PasswordQuery \o encodeURIComponent(config.password)
             ELSE <<>> >>)

\* generateStellarURL(stellarId, config): the rejection, or originalId and
\* shortUrl of the result.
generateStellarURL(stellarId, config) ==
  IF stellarId = <<>> \/ ~validateStellarID(stellarId)
    THEN [error |-> InvalidStellarID, originalId |-> <<>>, shortUrl |-> <<>>]
    ELSE [error |-> NoError, originalId |-> stellarId,
          shortUrl |-> ShortUrlOf(stellarId, config)]

\* The first position from `from` on at which s has a character of `set`,
\* Len(s) + 1 when there is none.
RECURSIVE FirstOf(_, _, _)
FirstOf(s, from, set) ==
  IF from > Len(s) THEN Len(s) + 1
  ELSE IF s[from] \in set THEN from
  ELSE FirstOf(s, from + 1, set)

\* Characters that make `new URL` throw when they occur in the host.
ForbiddenHostChars ==
  {" ", "\t", "<", ">", "[", "\\", "]", "^", "|", "%"}

\* new URL(url) for an https URL without user name and port: the host runs
\* from after "https://" to the first "/", "?" or "#" and must be non-empty
\* and free of forbidden characters, and pathname runs from there to the
\* first "?" or "#" ("/" when empty).  hostEnd and pathEnd are the positions
\* of those delimiters.  Of the path, the texts [A-Za-z0-9_-] and "/" that
\* the model uses are kept as they are by the parser.
UrlParts(url, hostEnd, pathEnd) ==
  IF \/ hostEnd = Len(HttpsScheme) + 1
     \/ \E i \in (Len(HttpsScheme) + 1)..(hostEnd - 1) :
          url[i] \in ForbiddenHostChars
    THEN [ok |-> FALSE, hostname |-> <<>>, pathname |-> <<>>]
    ELSE [ok |-> TRUE,
          hostname |-> SubSeq(url, Len(HttpsScheme) + 1, hostEnd - 1),
          pathname |-> IF pathEnd = hostEnd THEN <<"/">>
                       ELSE SubSeq(url, hostEnd, pathEnd - 1)]

NewURL(url) ==
  IF Len(url) < Len(HttpsScheme)
       \/ SubSeq(url, 1, Len(HttpsScheme)) # HttpsScheme
    THEN [ok |-> FALSE, hostname |-> <<>>, pathname |-> <<>>]
    ELSE UrlParts(url,
                  FirstOf(url, Len(HttpsScheme) + 1, {"/", "?", "#"}),
                  FirstOf(url,
                          FirstOf(url, Len(HttpsScheme) + 1, {"/", "?", "#"}),
                          {"?", "#"}))

\* pathname.split('/').filter(Boolean): the non-empty texts between slashes.
RECURSIVE PathParts(_)
PathParts(pathname) ==
  IF pathname = <<>> THEN <<>>
  ELSE IF FirstOf(pathname, 1, {"/"}) = 1
    THEN PathParts(SubSeq(pathname, 2, Len(pathname)))
  ELSE <<SubSeq(pathname, 1, FirstOf(pathname, 1, {"/"}) - 1)>>
         \o PathParts(SubSeq(pathname, FirstOf(pathname, 1, {"/"}),
                             Len(pathname)))

NullID == [isNull |-> TRUE, id |-> <<>>]

\* for (const part of pathParts) if (validateStellarID(part)) return part;
\* return null
RECURSIVE FirstStellarID(_, _)
FirstStellarID(parts, k) ==
  IF k > Len(parts) THEN NullID
  ELSE IF validateStellarID(parts[k]) THEN [isNull |-> FALSE, id |-> parts[k]]
  ELSE FirstStellarID(parts, k + 1)

\* extractStellarIDFromURL(url): null when new URL throws or no path part is
\* an ID, else the first path part that is one.
extractStellarIDFromURL(url) ==
  IF ~NewURL(url).ok THEN NullID
  ELSE FirstStellarID(PathParts(NewURL(url).pathname), 1)

----------------------------------------------------------------------------
(* The state of the module and its operations.                             *)

VARIABLES
  hashCache,       \* Map<string, number>: text -> hash value
  starNamesCache,  \* Map<number, string>
  metrics,         \* performanceMonitor.metrics (the three counters)
  last,            \* the last call made and what it returned or threw
  probe,           \* history: one earlier successful generateStellarID call
  reply,           \* what the utility function called since `last` returned
  batches          \* the generateBatchStellarIDs calls: locals and position

vars == <<hashCache, starNamesCache, metrics, last, probe, reply, batches>>

\* The number of successful generations between two resets that the model
\* follows.
MaxGenerations == 2

ZeroMetrics == [totalGenerations |-> 0, cacheHits |-> 0, cacheMisses |-> 0]

\* PerformanceMonitor.recordGeneration, the three counters.  generationTime
\* and cacheHitRate are floating-point figures derived from the clock and
\* from these counters; they are not part of the model.
recordGeneration(m, cacheHit) ==
  [totalGenerations |-> m.totalGenerations + 1,
   cacheHits   |-> IF cacheHit THEN m.cacheHits + 1 ELSE m.cacheHits,
   cacheMisses |-> IF cacheHit THEN m.cacheMisses ELSE m.cacheMisses + 1]

\* A generation is recorded only by a call that reaches its last statements:
\* a call that threw in validation records nothing.
RecordsEveryCall(m, r) == recordGeneration(m, r.cacheHit)

MetricsAfterCall(m, r) ==
  IF r.error = NoError THEN recordGeneration(m, r.cacheHit) ELSE m

\* What last and probe keep of a call: the outcome without the cache.
Outcome(r) ==
  [error |-> r.error, id |-> r.id, cacheHit |-> r.cacheHit, hash |-> r.hash,
   hashNumber |-> r.hashNumber, starIndex |-> r.starIndex,
   starName |-> r.starName]

NoCall ==
  [op |-> "none", input |-> NullValue, options |-> DefaultOptions,
   result |-> Outcome(Thrown(NoError, EmptyCache)), returned |-> 0]

\* No utility function has been called since the last operation on the state.
NoReply ==
  [op |-> "none", id |-> <<>>, valid |-> FALSE, parts |-> NullParts,
   stats |-> getStellarIDCacheStats(EmptyCache, EmptyCache),
   metrics |-> [shared |-> FALSE, value |-> ZeroMetrics],
   url |-> <<>>, extracted |-> NullID]

\* The generateBatchStellarIDs calls the model follows.
BatchIds == {1, 2}

\* No call yet: empty inputs, no progressCallback, the empty results and
\* errors arrays.
IdleBatch ==
  [state |-> "idle", inputs |-> <<>>, options |-> DefaultOptions,
   hasCallback |-> FALSE, throwsAt |-> {}, i |-> 0,
   results |-> <<>>, errors |-> <<>>, performanceMetrics |-> ZeroMetrics,
   overlapped |-> FALSE]

Init ==
  /\ reply = NoReply
  /\ hashCache = EmptyCache
  /\ starNamesCache = EmptyCache
  /\ metrics = ZeroMetrics
  /\ last = NoCall
  /\ probe = NoCall
  /\ batches = [b \in BatchIds |-> IdleBatch]

\* The state after a call generateStellarID(input, options) whose outcome is
\* r.  A call that threw changes nothing but the record of the call; a call
\* that returned leaves its cache insertions and one recorded generation
\* behind.  remember: whether this call becomes the earlier call that later
\* ones are compared with.
AfterCall(input, options, remember, r) ==
  /\ r.error = NoError => metrics.totalGenerations < MaxGenerations
  /\ hashCache' = r.cache
  /\ metrics' = MetricsAfterCall(metrics, r)
  /\ last' = [op |-> "generate", input |-> input, options |-> options,
              result |-> Outcome(r), returned |-> 0]
  /\ probe' = IF remember /\ r.error = NoError THEN last' ELSE probe
  /\ reply' = NoReply
  /\ UNCHANGED <<starNamesCache, batches>>

GenerateStellarID(input, options, remember) ==
  AfterCall(input, options, remember,
            generateStellarID(hashCache, input, options))

\* clearStellarIDCaches() that empties starNamesCache only.
ClearKeepsHashCache ==
  /\ starNamesCache' = EmptyCache
  /\ last' = [NoCall EXCEPT !.op = "clear",
                !.returned = Cardinality(DOMAIN hashCache)
                               + Cardinality(DOMAIN starNamesCache)]
  /\ reply' = NoReply
  /\ UNCHANGED <<hashCache, metrics, probe, batches>>

\* clearStellarIDCaches(): both maps emptied, the number of entries returned.
ClearStellarIDCaches ==
  /\ hashCache' = EmptyCache
  /\ starNamesCache' = EmptyCache
  /\ last' = [NoCall EXCEPT !.op = "clear",
                !.returned = Cardinality(DOMAIN hashCache)
                               + Cardinality(DOMAIN starNamesCache)]
  /\ reply' = NoReply
  /\ UNCHANGED <<metrics, probe, batches>>

\* resetPerformanceMetrics(): performanceMonitor.reset().
ResetPerformanceMetrics ==
  /\ metrics' = ZeroMetrics
  /\ last' = [NoCall EXCEPT !.op = "reset"]
  /\ reply' = NoReply
  /\ UNCHANGED <<hashCache, starNamesCache, probe, batches>>

\* generateStellarIDAsync(input, options): the promise settles with the ID
\* or with the error; the function has no await, it runs to its end in one
\* step.  No generation is recorded.
GenerateStellarIDAsync(input, options) ==
  /\ hashCache' = generateStellarIDAsync(hashCache, input, options).cache
  /\ last' = [op |-> "generateAsync", input |-> input, options |-> options,
              result |-> Outcome(generateStellarIDAsync(hashCache, input,
                                                        options)),
              returned |-> 0]
  /\ reply' = NoReply
  /\ UNCHANGED <<starNamesCache, metrics, probe, batches>>

\* PerformanceMonitor.getMetrics() that returns this.metrics itself.
getMetricsShared(m) == [shared |-> TRUE, value |-> m]

\* PerformanceMonitor.getMetrics(): return { ...this.metrics }, a new object
\* with the values of the counters.
getMetrics(m) == [shared |-> FALSE, value |-> m]

\* getPerformanceMetrics(): performanceMonitor.getMetrics().
GetPerformanceMetrics ==
  /\ reply' = [NoReply EXCEPT !.op = "metrics", !.metrics = getMetrics(metrics)]
  /\ UNCHANGED <<hashCache, starNamesCache, metrics, last, probe,
                 batches>>

\* The caller assigns `value` to the property `counter` of the object that
\* getPerformanceMetrics returned.  The assignment reaches this.metrics only
\* when the object returned is this.metrics itself.
SetReturnedMetric(counter, value) ==
  /\ reply.op = "metrics"
  /\ reply' = [reply EXCEPT !.op = "metricsWritten",
                            !.metrics.value[counter] = value]
  /\ metrics' = IF reply.metrics.shared
                  THEN [metrics EXCEPT ![counter] = value] ELSE metrics
  /\ UNCHANGED <<hashCache, starNamesCache, last, probe, batches>>

\* validateStellarID(id)
ValidateStellarID(id) ==
  /\ reply' = [NoReply EXCEPT !.op = "validate", !.id = id,
                              !.valid = validateStellarID(id)]
  /\ UNCHANGED <<hashCache, starNamesCache, metrics, last, probe,
               batches>>

\* extractStellarIDParts(id)
ExtractStellarIDParts(id) ==
  /\ reply' = [NoReply EXCEPT !.op = "extract", !.id = id,
                              !.valid = validateStellarID(id),
                              !.parts = extractStellarIDParts(id)]
  /\ UNCHANGED <<hashCache, starNamesCache, metrics, last, probe,
               batches>>

\* getStellarIDCacheStats()
GetStellarIDCacheStats ==
  /\ reply' = [NoReply EXCEPT !.op = "stats",
                  !.stats = getStellarIDCacheStats(hashCache, starNamesCache)]
  /\ UNCHANGED <<hashCache, starNamesCache, metrics, last, probe,
               batches>>

----------------------------------------------------------------------------
(* generateBatchStellarIDs.  A call runs from its start to its first await, *)
(* and from each await to the next or to its return, without interruption;  *)
(* other calls run between.                                                 *)

\* if (i % 100 === 0) await new Promise(resolve => setTimeout(resolve, 0))
YieldInterval == 100

\* The message of the error a progressCallback throws.
CallbackError == "progressCallback threw"

\* The loop of generateBatchStellarIDs from item batch.i (0-based) to the
\* next await or to the return statement, on the cache `cache` and the
\* counters m.  batch.throwsAt: the values of `current` at which the
\* progressCallback throws.  AfterItem is the loop body once
\* generateStellarID(inputs[i], options) had the outcome r: a throw, of
\* generateStellarID or of the progressCallback, goes to the catch block,
\* which pushes onto errors; the callback is called after results.push(id),
\* and the await comes after the callback.
RECURSIVE generateBatchLoop(_, _, _)
RECURSIVE AfterItem(_, _, _, _)
AfterItem(cache, m, batch, r) ==
  IF r.error # NoError
    THEN generateBatchLoop(cache, m,
           [batch EXCEPT !.i = @ + 1,
              !.errors = Append(@, [input |-> batch.inputs[batch.i + 1],
                                    error |-> r.error])])
  ELSE IF batch.hasCallback /\ (batch.i + 1) \in batch.throwsAt
    THEN generateBatchLoop(r.cache, recordGeneration(m, r.cacheHit),
           [batch EXCEPT !.i = @ + 1,
              !.results = Append(@, r.id),
              !.errors = Append(@, [input |-> batch.inputs[batch.i + 1],
                                    error |-> CallbackError])])
  ELSE IF batch.i % YieldInterval = 0
    THEN [cache |-> r.cache, metrics |-> recordGeneration(m, r.cacheHit),
          batch |-> [batch EXCEPT !.state = "awaiting", !.i = @ + 1,
                                  !.results = Append(@, r.id)]]
  ELSE generateBatchLoop(r.cache, recordGeneration(m, r.cacheHit),
         [batch EXCEPT !.i = @ + 1, !.results = Append(@, r.id)])

generateBatchLoop(cache, m, batch) ==
  IF batch.i >= Len(batch.inputs)
    THEN [cache |-> cache, metrics |-> m,
          batch |-> [batch EXCEPT !.state = "done",
                        !.performanceMetrics = getMetrics(m).value]]
    ELSE AfterItem(cache, m, batch,
                   generateStellarID(cache, batch.inputs[batch.i + 1],
                                     batch.options))

\* The state after the call b ran up to the outcome `out` of its loop.
AfterBatchStep(b, out) ==
  /\ hashCache' = out.cache
  /\ metrics' = out.metrics
  /\ batches' = [batches EXCEPT ![b] = out.batch]
  /\ last' = [NoCall EXCEPT !.op = "batch"]
  /\ reply' = NoReply
  /\ UNCHANGED <<starNamesCache, probe>>

\* generateBatchStellarIDs(inputs, options, progressCallback) is called and
\* runs to its first await or, when no item reaches an await, to its
\* return.  overlapped: another call is suspended at an await meanwhile.
GenerateBatchStellarIDs(b, inputs, options, hasCallback, throwsAt) ==
  /\ batches[b].state = "idle"
  /\ AfterBatchStep(b,
       generateBatchLoop(hashCache, metrics,
         [IdleBatch EXCEPT !.inputs = inputs, !.options = options,
            !.hasCallback = hasCallback, !.throwsAt = throwsAt,
            !.overlapped = \E other \in BatchIds :
                              batches[other].state = "awaiting"]))

\* The call b resumes after its await and runs to the next await or to its
\* return.
ResumeBatchStellarIDs(b) ==
  /\ batches[b].state = "awaiting"
  /\ AfterBatchStep(b, generateBatchLoop(hashCache, metrics, batches[b]))

\* generateStellarURL(stellarId, config).  With analytics (the default)
\* generateTrackingId calls simpleHash(stellarId) with the cache enabled,
\* which caches the hash of the ID.  The await of generateQRCode comes after
\* that and before the return, which touches nothing of the module.
GenerateStellarURL(stellarId, config) ==
  /\ reply' = [NoReply EXCEPT !.op = "url", !.id = stellarId,
                 !.valid = generateStellarURL(stellarId, config).error = NoError,
                 !.url = generateStellarURL(stellarId, config).shortUrl]
  /\ hashCache' =
       IF generateStellarURL(stellarId, config).error = NoError
            /\ config.analytics
         THEN simpleHash(hashCache, stellarId, TRUE).cache
         ELSE hashCache
  /\ UNCHANGED <<starNamesCache, metrics, last, probe, batches>>

\* extractStellarIDFromURL(url) on the shortUrl of the result before.
ExtractStellarIDFromURL ==
  /\ reply.op = "url" /\ reply.valid
  /\ reply' = [reply EXCEPT !.op = "extractUrl",
                 !.extracted = extractStellarIDFromURL(reply.url)]
  /\ UNCHANGED <<hashCache, starNamesCache, metrics, last, probe,
                 batches>>

----------------------------------------------------------------------------
(* Spec: calls on short texts with each algorithm, with and without the    *)
(* cache, mixed with calls that are rejected, cache clears and metric      *)
(* resets.                                                                 *)

Algorithms == {"simple", "djb2", "fnv1a"}

WithAlgorithm(hashAlgorithm, enableCache) ==
  [DefaultOptions EXCEPT !.hashAlgorithm = hashAlgorithm,
                         !.enableCache = enableCache]

WithLength(length) ==
  [DefaultOptions EXCEPT !.hasLength = TRUE, !.length = length]

WithPrefix(prefix) ==
  [DefaultOptions EXCEPT !.hasPrefix = TRUE, !.prefix = prefix]

\* The calls of Spec, as <<input, options>>: "a" under every algorithm with
\* and without the cache, "b", and three calls that are rejected.
CacheCalls ==
  {<<StringValue(<<"a">>), WithAlgorithm(a, e)>> :
     a \in Algorithms, e \in BOOLEAN}
  \cup {<<StringValue(<<"b">>), WithAlgorithm("simple", TRUE)>>,
        <<StringValue(<<>>), DefaultOptions>>,
        <<StringValue(<<"a">>), WithLength(0)>>,
        <<StringValue(<<"b">>), WithPrefix(<<"b", "a", "d", " ", "!">>)>>}

\* The history variable probe is written once.
Remember == IF probe.op = "none" THEN BOOLEAN ELSE {FALSE}

Generate ==
  \E call \in CacheCalls, remember \in Remember :
    GenerateStellarID(call[1], call[2], remember)

\* The calls of a set of <<input, options>>, none of them remembered.
Calls(calls) ==
  \E call \in calls : GenerateStellarID(call[1], call[2], FALSE)

Next == Generate \/ ClearStellarIDCaches \/ ResetPerformanceMetrics

Spec == Init /\ [][Next]_vars

Succeeded(call) == call.op = "generate" /\ call.result.error = NoError

Failed(call) == call.op = "generate" /\ call.result.error # NoError

\* C1: two calls of generateStellarID with the same input and the same
\* options return the same ID, whatever calls were made before or between
\* them.
C1_Determinism ==
  (Succeeded(last) /\ Succeeded(probe)
     /\ probe.input = last.input /\ probe.options = last.options)
    => last.result.id = probe.result.id

\* C2: a call with the cache enabled returns the ID that the same call
\* returns with the cache disabled.
C2_CacheTransparency ==
  (Succeeded(last) /\ last.options.enableCache)
    => last.result.id = generateStellarID(EmptyCache, last.input,
                   [last.options EXCEPT !.enableCache = FALSE]).id

\* C4: a call that validateInput or validateOptions rejects returns no ID
\* and leaves hashCache and the counters of the performance monitor as they
\* were.
C4_FailureIsAtomic ==
  [][Failed(last') =>
       /\ last'.result.id = <<>>
       /\ hashCache' = hashCache
       /\ metrics' = metrics]_vars

\* A rejected call made while the cache holds entries and generations have
\* been recorded, once by each validator.
C4_Witness ==
  /\ Failed(last)
  /\ last.result.error = "Length must be between 1 and 100"
  /\ hashCache # EmptyCache
  /\ metrics.totalGenerations > 0

----------------------------------------------------------------------------
(* SpecInput: calls with the default options on inputs around the limits   *)
(* of validateInput, among them texts of 1000 and of 1001 code units.      *)

Repeat(c, n) == [i \in 1..n |-> c]

InputCalls ==
  {<<input, DefaultOptions>> :
     input \in {NullValue,
                StringValue(<<>>),
                StringValue(<<" ">>),
                StringValue(<<" ", "\t", " ">>),
                StringValue(<<"a">>),
                StringValue(<<" ", "a", " ">>),
                StringValue(Repeat("a", MaxInputLength)),
                StringValue(Repeat("a", MaxInputLength + 1))}}

GenerateInput == Calls(InputCalls)

NextInput == GenerateInput \/ ClearStellarIDCaches \/ ResetPerformanceMetrics

SpecInput == Init /\ [][NextInput]_vars

\* C5: with valid options a call is accepted exactly when its input is a
\* string that is not empty, not all whitespace and of at most 1000 code
\* units; the empty string and null are rejected with 'Input must be a
\* non-empty string'.
C5_InputValidation ==
  (last.op = "generate" /\ last.options = DefaultOptions) =>
    LET str == last.input.str
        acceptable ==
          /\ last.input.type = "string"
          /\ Len(str) >= 1
          /\ Len(str) <= 1000
          /\ \E i \in 1..Len(str) : str[i] \notin {" ", "\t"}
    IN  /\ (last.result.error = NoError) <=> acceptable
        /\ (last.input.type = "null" \/ str = <<>>)
             => last.result.error = "Input must be a non-empty string"
        /\ Len(str) = 1000 => last.result.error = NoError
        /\ Len(str) = 1001 => last.result.error # NoError

\* A call on a text of exactly 1000 code units has returned an ID.
C5_Witness ==
  /\ Succeeded(last)
  /\ Len(last.input.str) = 1000
  /\ last.result.id # <<>>

----------------------------------------------------------------------------
(* SpecOptions: calls on the input "a" with lengths and prefixes around    *)
(* the limits of validateOptions, and with the other options it checks.    *)

LengthChoices == {0 - 1, 0, 1, 100, 101, 999}

PrefixChoices ==
  {<<>>,
   <<"C", "O", "S", "M", "I", "C">>,
   <<"a", "_", "-", "9">>,
   <<"b", "a", "d", " ", "p", "r", "e", "f", "i", "x", "!">>,
   Repeat("P", MaxPrefixLength),
   Repeat("P", MaxPrefixLength + 1)}

LengthOptions ==
  {DefaultOptions} \cup {WithLength(n) : n \in LengthChoices}

LengthAndPrefixOptions ==
  LengthOptions
  \cup {[o EXCEPT !.hasPrefix = TRUE, !.prefix = p] :
          o \in LengthOptions, p \in PrefixChoices}

OtherOptions ==
  {[DefaultOptions EXCEPT !.hasCustomStarNames = TRUE],
   [DefaultOptions EXCEPT !.hasCustomStarNames = TRUE,
                          !.customStarNames = << <<"X">>, <<"Y", "Z">> >>],
   [DefaultOptions EXCEPT !.hasSalt = TRUE,
                          !.salt = Repeat("s", MaxSaltLength)],
   [DefaultOptions EXCEPT !.hasSalt = TRUE,
                          !.salt = Repeat("s", MaxSaltLength + 1)],
   [DefaultOptions EXCEPT !.hashAlgorithm = "md5"],
   [DefaultOptions EXCEPT !.caseOption = "title"],
   [DefaultOptions EXCEPT !.useSpecialChars = TRUE]}

OptionsCalls ==
  {<<StringValue(<<"a">>), o>> : o \in LengthAndPrefixOptions \cup OtherOptions}
  \cup {<<StringValue(<<>>), WithLength(0)>>}

GenerateOptions == Calls(OptionsCalls)

NextOptions ==
  GenerateOptions \/ ClearStellarIDCaches \/ ResetPerformanceMetrics

SpecOptions == Init /\ [][NextOptions]_vars

ValidInput(call) ==
  call.op = "generate" /\ call.input = StringValue(<<"a">>)

\* C6: a call that supplies length fails with 'Length must be between 1 and
\* 100' exactly when length is outside 1..100, and with nothing else
\* supplied it is accepted exactly when length is within 1..100.
C6_LengthBounds ==
  (ValidInput(last) /\ last.options.hasLength) =>
    LET length == last.options.length
    IN  /\ (length < 1 \/ length > 100)
             <=> last.result.error = "Length must be between 1 and 100"
        /\ ~last.options.hasPrefix
             => ((last.result.error = NoError) <=> (1 <= length /\ length <= 100))

\* A call with length 100 has returned an ID of 100 code units.
C6_Witness ==
  /\ Succeeded(last)
  /\ last.options.hasLength
  /\ last.options.length = 100
  /\ Len(last.result.id) = 100

\* C7: a call whose prefix option is present (the empty string included)
\* succeeds only if the prefix matches ^[A-Za-z0-9_-]+$ and has at most 20
\* code units, and fails with the prefix error otherwise.
C7_PrefixValidation ==
  (ValidInput(last) /\ last.options.hasPrefix) =>
    LET prefix == last.options.prefix
        wellFormed ==
          /\ Len(prefix) >= 1
          /\ Len(prefix) <= 20
          /\ \A i \in 1..Len(prefix) :
               prefix[i] \in UpperLetters \cup LowerLetters \cup DigitChars
                               \cup {"_", "-"}
    IN  /\ last.result.error = NoError => wellFormed
        /\ (~wellFormed /\ ~last.options.hasLength) =>
             last.result.error =
               "Prefix must be alphanumeric, underscore, or hyphen, max 20 characters"

\* C8: with no format, no length and case upper the ID is the prefix (the
\* one supplied, or STAR), "-", the hash number as four decimal digits, "-"
\* and the star name.
C8_DefaultFormat ==
  (Succeeded(last) /\ ~last.options.hasFormat /\ ~last.options.hasLength
     /\ last.options.caseOption \in {"undefined", "upper"}) =>
    LET prefix == IF last.options.hasPrefix THEN last.options.prefix
                  ELSE <<"S", "T", "A", "R">>
        n      == last.result.hashNumber
        field  == <<Digits[(n \div 1000) + 1], Digits[((n \div 100) % 10) + 1],
                    Digits[((n \div 10) % 10) + 1], Digits[(n % 10) + 1]>>
    IN  /\ n \in 0..9999
        /\ last.result.id
             = prefix \o <<"-">> \o field \o <<"-">> \o last.result.starName

\* A call with the prefix COSMIC has returned an ID that begins with COSMIC-.
C8_Witness ==
  /\ Succeeded(last)
  /\ ~last.options.hasLength
  /\ last.options.hasPrefix
  /\ last.options.prefix = <<"C", "O", "S", "M", "I", "C">>
  /\ SubSeq(last.result.id, 1, 7) = <<"C", "O", "S", "M", "I", "C", "-">>

----------------------------------------------------------------------------
(* SpecHash: calls on texts whose hash loops leave the 32-bit range, with  *)
(* and without a salt, under every algorithm, with the default and with a  *)
(* custom star list.                                                       *)

HashInputs ==
  {<<"a">>,
   <<"t", "y", "p", "e", "s", "c", "r", "i", "p", "t">>,
   <<"c", "o", "s", "m", "i", "c", "-", "u", "s", "e", "r">>}

CustomStarNames == << <<"S", "O", "L">>, <<"L", "U", "N", "A">>, <<"M", "A", "R", "S">> >>

HashOptions ==
  {[DefaultOptions EXCEPT !.hashAlgorithm = a, !.enableCache = FALSE,
                          !.hasSalt = (salt # <<>>), !.salt = salt,
                          !.hasCustomStarNames = (names # <<>>),
                          !.customStarNames = names] :
     a \in Algorithms, salt \in {<<>>, <<"s">>},
     names \in {<<>>, CustomStarNames}}

HashCalls ==
  {<<StringValue(i), o>> : i \in HashInputs, o \in HashOptions}
  \cup {<<StringValue(<<"t", "y", "p", "e", "s", "c", "r", "i", "p", "t">>),
          WithAlgorithm(a, TRUE)>> : a \in Algorithms}

GenerateHash == Calls(HashCalls)

NextHash == GenerateHash \/ ClearStellarIDCaches \/ ResetPerformanceMetrics

SpecHash == Init /\ [][NextHash]_vars

\* C9: the hash a call used is a non-negative integer, hashNumber is its
\* remainder modulo 10000 and lies in 0..9999, and the hash field of the ID
\* (here in the default format with the prefix STAR) is four decimal digits.
C9_HashFieldRange ==
  Succeeded(last) =>
    LET hash == last.result.hash
        n    == last.result.hashNumber
        id   == last.result.id
    IN  /\ hash.hi >= 0 /\ hash.lo >= 0 /\ hash.lo < 65536
        /\ n \in 0..9999
        /\ ((hash.hi % 10000) * 5536 + hash.lo - n) % 10000 = 0
        /\ Len(id) >= 10
        /\ id[5] = "-" /\ id[10] = "-"
        /\ \A i \in 6..9 : id[i] \in DigitChars

\* A call whose hash loop ended on a negative number, under the simple
\* algorithm, and returned.
C9_Witness ==
  /\ Succeeded(last)
  /\ ~last.options.enableCache
  /\ last.options.hashAlgorithm = "simple"
  /\ ForEachChar("simple", SaltedInput(last.input.str, last.options),
                 1, Len(SaltedInput(last.input.str, last.options)),
                 Num(0)).hi < 0

\* C10: the star name of the ID is list[hashNumber mod list.length], for
\* list the custom list when one is supplied and non-empty and the default
\* ten names otherwise, and the index is within the list.
C10_StarSelection ==
  Succeeded(last) =>
    LET list == IF last.options.hasCustomStarNames
                     /\ last.options.customStarNames # <<>>
                  THEN last.options.customStarNames
                  ELSE << <<"S", "I", "R", "I", "U", "S">>,
                          <<"V", "E", "G", "A">>,
                          <<"A", "L", "T", "A", "I", "R">>,
                          <<"R", "I", "G", "E", "L">>,
                          <<"A", "N", "T", "A", "R", "E", "S">>,
                          <<"A", "L", "D", "E", "B", "A", "R", "A", "N">>,
                          <<"B", "E", "T", "E", "L", "G", "E", "U", "S", "E">>,
                          <<"A", "R", "C", "T", "U", "R", "U", "S">>,
                          <<"P", "O", "L", "L", "U", "X">>,
                          <<"D", "E", "N", "E", "B">> >>
        index == last.result.hashNumber % Len(list)
    IN  /\ last.result.starIndex = index
        /\ index >= 0 /\ index < Len(list)
        /\ last.result.starName = list[index + 1]
        /\ SubSeq(last.result.id, 11, Len(last.result.id)) = list[index + 1]

\* A call with a custom list of three names whose hashNumber exceeds the
\* list, so that the remainder decides.
C10_Witness ==
  /\ Succeeded(last)
  /\ last.options.hasCustomStarNames
  /\ last.result.hashNumber >= Len(last.options.customStarNames)
  /\ last.result.starName = last.options.customStarNames[3]

----------------------------------------------------------------------------
(* SpecFormat: calls with a target length, in each case mode, with and     *)
(* without special characters, in the default format and with templates.   *)

FormatInputs == {<<"a">>, <<"U+0130", "x">>}

FormatLengths == {1, 5, 30}

FormatTemplates ==
  {<<>>,
   <<"{", "i", "n", "p", "u", "t", "}">>,
   <<"{", "s", "t", "a", "r", "}", "_", "{", "h", "a", "s", "h", "}">>}

FormatOptions ==
  {[DefaultOptions EXCEPT !.hasLength = TRUE, !.length = n,
                          !.caseOption = c, !.useSpecialChars = u,
                          !.hasFormat = (f # <<>>), !.format = f] :
     n \in FormatLengths, c \in {"upper", "lower", "mixed"},
     u \in BOOLEAN, f \in FormatTemplates}

FormatCalls == {<<StringValue(i), o>> : i \in FormatInputs, o \in FormatOptions}

GenerateFormat == Calls(FormatCalls)

NextFormat == GenerateFormat \/ ClearStellarIDCaches \/ ResetPerformanceMetrics

SpecFormat == Init /\ [][NextFormat]_vars

\* C3: a call with length L returns an ID of exactly L code units, in every
\* case mode, with useSpecialChars on or off, with or without a template.
C3_LengthContract ==
  (Succeeded(last) /\ last.options.hasLength)
    => Len(last.result.id) = last.options.length

\* C11: with useSpecialChars and a length, the ID has at every index i
\* (0-based) with (hash + i) mod 5 = 0 the character of specialChars at
\* index (hash + i) mod 26 in place of the character of the length-and-case-
\* normalized string, and the characters of that string everywhere else.
C11_SpecialCharInjection ==
  (Succeeded(last) /\ last.options.useSpecialChars /\ last.options.hasLength) =>
    \A i \in 0..(Len(last.result.id) - 1) :
      last.result.id[i + 1] =
        IF NumMod(NumAdd(last.result.hash, Num(i)), 5) = 0
          THEN specialChars[NumMod(NumAdd(last.result.hash, Num(i)), 26) + 1]
          ELSE CaseNormalizedID(last.input.str, last.options,
                                last.result.hashNumber)[i + 1]

----------------------------------------------------------------------------
(* SpecTemplate: calls with format templates in which a token occurs twice, *)
(* with inputs and star names that hold "$" or the text of a token, and the *)
(* call of the README's example with prefix COSMIC and length 6.            *)

Tokens == {TokenPrefix, TokenHash, TokenStar, TokenInput}

\* The token that stands at position i of the template, among those not
\* replaced so far; <<>> if there is none.
TokenAt(template, i, done) ==
  IF \E token \in Tokens \ done :
       /\ i + Len(token) - 1 <= Len(template)
       /\ SubSeq(template, i, i + Len(token) - 1) = token
    THEN CHOOSE token \in Tokens \ done :
           /\ i + Len(token) - 1 <= Len(template)
           /\ SubSeq(template, i, i + Len(token) - 1) = token
    ELSE <<>>

\* The template with the first occurrence of each token replaced by its
\* value in one pass from left to right: from position i on, `done` the
\* tokens replaced so far.  Inserted text is not scanned.
RECURSIVE SubstituteFrom(_, _, _, _)
SubstituteFrom(template, values, i, done) ==
  IF i > Len(template) THEN <<>>
  ELSE IF TokenAt(template, i, done) # <<>>
    THEN values[TokenAt(template, i, done)]
         \o SubstituteFrom(template, values,
                           i + Len(TokenAt(template, i, done)),
                           done \cup {TokenAt(template, i, done)})
    ELSE <<template[i]>> \o SubstituteFrom(template, values, i + 1, done)

\* What the template of a call stands for, given the call's hashNumber.
SubstituteTokens(input, options, hashNumber) ==
  SubstituteFrom(options.format,
    (TokenPrefix :> PrefixOf(options))
      @@ (TokenHash :> HashField(hashNumber))
      @@ (TokenStar :> StarName(options, hashNumber))
      @@ (TokenInput :> SubSeq(input, 1, IF Len(input) < 10 THEN Len(input) ELSE 10)),
    1, {})

TemplateInputs == {<<"a", "b">>, <<"a", "$", "$", "b">>}

TemplateFormats ==
  {<<"{", "i", "n", "p", "u", "t", "}">>,
   <<"{", "s", "t", "a", "r", "}", ":", "{", "i", "n", "p", "u", "t", "}">>,
   <<"{", "h", "a", "s", "h", "}", "{", "h", "a", "s", "h", "}">>,
   <<"{", "p", "r", "e", "f", "i", "x", "}", "/",
     "{", "p", "r", "e", "f", "i", "x", "}", "/",
     "{", "i", "n", "p", "u", "t", "}", "{", "i", "n", "p", "u", "t", "}">>}

TemplateStarNames == {<<>>, << <<"{", "i", "n", "p", "u", "t", "}">> >>}

TemplateOptions ==
  {[DefaultOptions EXCEPT !.hasFormat = TRUE, !.format = f,
                          !.hasCustomStarNames = (names # <<>>),
                          !.customStarNames = names] :
     f \in TemplateFormats, names \in TemplateStarNames}

\* generateStellarID('user-123', {prefix: 'COSMIC', length: 6,
\*                                useSpecialChars: true})
ReadmeCall ==
  <<StringValue(<<"u", "s", "e", "r", "-", "1", "2", "3">>),
    [DefaultOptions EXCEPT !.hasPrefix = TRUE,
                           !.prefix = <<"C", "O", "S", "M", "I", "C">>,
                           !.hasLength = TRUE, !.length = 6,
                           !.useSpecialChars = TRUE]>>

TemplateCalls ==
  {<<StringValue(i), o>> : i \in TemplateInputs, o \in TemplateOptions}
  \cup {ReadmeCall}

GenerateTemplate == Calls(TemplateCalls)

NextTemplate ==
  GenerateTemplate \/ ClearStellarIDCaches \/ ResetPerformanceMetrics

SpecTemplate == Init /\ [][NextTemplate]_vars

HasTemplate(call) ==
  /\ Succeeded(call)
  /\ call.options.hasFormat
  /\ ~call.options.hasLength
  /\ CaseOf(call.options) = "upper"

\* C12: with a format template the ID is the template with the first
\* occurrence of {prefix}, {hash}, {star} and {input} replaced by the
\* prefix, the four-digit hash field, the star name and the first 10 code
\* units of the input, and every later occurrence left as it is (here for
\* star names that hold no token).
C12_FirstOccurrenceOnly ==
  (HasTemplate(last) /\ ~last.options.hasCustomStarNames) =>
    last.result.id = SubstituteTokens(last.input.str, last.options,
                                      last.result.hashNumber)

\* C13: the text inserted for a token is not scanned for tokens: a star name
\* that holds the text {input} appears in the ID as it is (here for inputs
\* without "$").
C13_SinglePass ==
  (HasTemplate(last) /\ \A i \in 1..Len(last.input.str) :
                          last.input.str[i] # "$") =>
    last.result.id = SubstituteTokens(last.input.str, last.options,
                                      last.result.hashNumber)

\* C14: length sizes the hash segment only: in the default format a call
\* with length L returns the whole prefix, "-", L characters, "-" and the
\* whole star name; so does the README's call with prefix COSMIC, length 6.
C14_ReadmeLength ==
  (Succeeded(last) /\ last.options.hasLength /\ ~last.options.hasFormat) =>
    /\ Len(last.result.id) = Len(PrefixOf(last.options)) + 1
                               + last.options.length + 1
                               + Len(last.result.starName)
    /\ SubSeq(last.result.id, 1, Len(PrefixOf(last.options)) + 1)
         = PrefixOf(last.options) \o <<"-">>
    /\ SubSeq(last.result.id,
              Len(PrefixOf(last.options)) + last.options.length + 2,
              Len(last.result.id))
         = <<"-">> \o last.result.starName

----------------------------------------------------------------------------
(* SpecParse: IDs generated in the default format with prefixes that hold   *)
(* hyphens, underscores and digits, in each case mode, then given to        *)
(* validateStellarID and extractStellarIDParts, with a few other texts.     *)

ParsePrefixes ==
  {<<>>, <<"M", "Y", "-", "A", "P", "P">>, <<"A", "_", "B">>, <<"1">>}

ParseOptions ==
  {[DefaultOptions EXCEPT !.hasPrefix = (p # <<>>), !.prefix = p,
                          !.caseOption = c,
                          !.hasCustomStarNames = (names # <<>>),
                          !.customStarNames = names] :
     p \in ParsePrefixes, c \in {"upper", "lower", "mixed"},
     names \in {<<>>, << <<"A">> >>}}

ParseCalls == {<<StringValue(<<"a">>), o>> : o \in ParseOptions}

\* Texts given to the utility functions besides the ID generated last.
OtherIDs ==
  {<<"S", "T", "A", "R", "-", "0", "0", "9", "7">>,
   <<"S", "T", "A", "R", "-", "0", "0", "9", "7", "-", "V", "E", "G", "A">>,
   <<"s", "t", "a", "r", "-", "0", "0", "9", "7", "-", "v", "e", "g", "a">>,
   <<"S", "T", "A", "R", "-", "9", "7", "-", "V", "E", "G", "A">>}

ParsedIDs ==
  IF Succeeded(last) THEN OtherIDs \cup {last.result.id} ELSE OtherIDs

GenerateParse == Calls(ParseCalls)

ValidateID == \E id \in ParsedIDs : ValidateStellarID(id)

ExtractParts == \E id \in ParsedIDs : ExtractStellarIDParts(id)

NextParse ==
  \/ GenerateParse
  \/ ValidateID
  \/ ExtractParts
  \/ ClearStellarIDCaches
  \/ ResetPerformanceMetrics

SpecParse == Init /\ [][NextParse]_vars

\* The utility function called last was given the ID that the last call of
\* generateStellarID returned, made in the default format without a length.
OnGeneratedID(op) ==
  /\ reply.op = op
  /\ Succeeded(last)
  /\ reply.id = last.result.id
  /\ ~last.options.hasFormat
  /\ ~last.options.hasLength

\* C15: for an ID that validateStellarID accepts, extractStellarIDParts
\* returns the ID's prefix, four-digit field and star name, the three texts
\* that joined by "-" give the ID back; for an ID generated with an
\* upper-case prefix (hyphens and underscores included) they are the prefix,
\* the hash field and the star name that generateStellarID used.
C15_ParseRoundTrip ==
  /\ (reply.op = "extract" /\ reply.valid) =>
       /\ ~reply.parts.isNull
       /\ reply.id = reply.parts.prefix \o <<"-">> \o reply.parts.hash
                       \o <<"-">> \o reply.parts.starName
  /\ (OnGeneratedID("extract") /\ CaseOf(last.options) = "upper"
        /\ \A i \in 1..Len(PrefixOf(last.options)) :
             PrefixOf(last.options)[i] \in IDPrefixChars) =>
       reply.parts = [isNull |-> FALSE,
                      prefix |-> PrefixOf(last.options),
                      hash |-> HashField(last.result.hashNumber),
                      starName |-> last.result.starName]

\* C20: an ID generated in the default format with case lower or case mixed
\* is rejected by validateStellarID.
C20_RejectsLowerAndMixed ==
  (OnGeneratedID("validate") /\ CaseOf(last.options) \in {"lower", "mixed"})
    => ~reply.valid

\* C20 as amended: an ID generated in the default format with case lower is
\* rejected, and one generated with case mixed is rejected whenever the case
\* step changed it, that is whenever it is not the ID that case upper gives.
C20_RejectsChangedCase ==
  (OnGeneratedID("validate")
     /\ \/ CaseOf(last.options) = "lower"
        \/ /\ CaseOf(last.options) = "mixed"
           /\ last.result.id
                # CaseNormalizedID(last.input.str,
                                   [last.options EXCEPT !.caseOption = "upper"],
                                   last.result.hashNumber))
    => ~reply.valid

\* validateStellarID was given the mixed-case ID sTaR-0097-aRcTuRuS, and the
\* lower-case ID of a call whose upper-case ID it accepts.
C20_Witness ==
  /\ OnGeneratedID("validate")
  /\ CaseOf(last.options) \in {"lower", "mixed"}
  /\ ~last.options.hasPrefix
  /\ ~last.options.hasCustomStarNames
  /\ validateStellarID(CaseNormalizedID(last.input.str,
                         [last.options EXCEPT !.caseOption = "upper"],
                         last.result.hashNumber))
  /\ ~reply.valid

----------------------------------------------------------------------------
(* SpecCache: the cache filled one text at a time up to CACHE_SIZE and      *)
(* beyond.  generateStellarIDAsync is called on the decimal numeral of the  *)
(* number of entries cached so far, a text not cached yet;                  *)
(* generateStellarID (which is also what a batch calls for each item) is     *)
(* called on "0", the text cached first, with the cache enabled and, under  *)
(* another algorithm, disabled.                                             *)

CacheSizeNumeral == NumberToString(Cardinality(DOMAIN hashCache))

FillAsync ==
  GenerateStellarIDAsync(StringValue(CacheSizeNumeral), DefaultOptions)

GenerateCached ==
  \E options \in {DefaultOptions, WithAlgorithm("djb2", FALSE)} :
    GenerateStellarID(StringValue(<<"0">>), options, FALSE)

NextCache == FillAsync \/ GenerateCached \/ ClearStellarIDCaches

SpecCache == Init /\ [][NextCache]_vars

\* C16: hashCache never holds more than 1000 entries; a call made when it
\* holds 1000 leaves it as it is; and no step other than
\* clearStellarIDCaches removes an entry or changes its value.
C16_BoundedCache ==
  [][/\ Cardinality(DOMAIN hashCache') <= 1000
     /\ (Cardinality(DOMAIN hashCache) = 1000 /\ last'.op # "clear")
          => hashCache' = hashCache
     /\ last'.op # "clear"
          => \A text \in DOMAIN hashCache :
               /\ text \in DOMAIN hashCache'
               /\ hashCache'[text] = hashCache[text]]_vars

\* A call on a text that is not cached has returned while the cache holds
\* 1000 entries.
C16_Witness ==
  /\ Cardinality(DOMAIN hashCache) = 1000
  /\ last.op \in {"generate", "generateAsync"}
  /\ last.result.error = NoError
  /\ last.options.enableCache
  /\ last.input.str \notin DOMAIN hashCache

----------------------------------------------------------------------------
(* SpecStats: cached and uncached calls mixed with clearStellarIDCaches and *)
(* getStellarIDCacheStats.                                                  *)

StatsCalls ==
  {<<StringValue(<<"a">>), DefaultOptions>>,
   <<StringValue(<<"b">>), WithAlgorithm("fnv1a", TRUE)>>,
   <<StringValue(<<"a", "b">>), WithAlgorithm("djb2", TRUE)>>,
   <<StringValue(<<"a", "b">>), WithAlgorithm("djb2", FALSE)>>}

GenerateStats == Calls(StatsCalls)

NextStats ==
  \/ GenerateStats
  \/ ClearStellarIDCaches
  \/ GetStellarIDCacheStats
  \/ ResetPerformanceMetrics

SpecStats == Init /\ [][NextStats]_vars

\* C17: clearStellarIDCaches returns the number of entries the two maps held
\* before the call; getStellarIDCacheStats reports the sizes of the two
\* maps, their sum as totalCacheSize and maxCacheSize 1000, and when called
\* right after clearStellarIDCaches it reports 0, 0 and 0.
C17_ClearAndStats ==
  [][/\ (last'.op = "clear" /\ reply'.op = "none")
          => last'.returned = Cardinality(DOMAIN hashCache)
                                + Cardinality(DOMAIN starNamesCache)
     /\ reply'.op = "stats"
          => /\ reply'.stats.hashCacheSize = Cardinality(DOMAIN hashCache)
             /\ reply'.stats.starNamesCacheSize
                  = Cardinality(DOMAIN starNamesCache)
             /\ reply'.stats.totalCacheSize
                  = reply'.stats.hashCacheSize
                      + reply'.stats.starNamesCacheSize
             /\ reply'.stats.maxCacheSize = 1000
             /\ last'.op = "clear"
                  => /\ reply'.stats.hashCacheSize = 0
                     /\ reply'.stats.starNamesCacheSize = 0
                     /\ reply'.stats.totalCacheSize = 0]_vars

\* clearStellarIDCaches has returned 2, the number of entries it removed,
\* and getStellarIDCacheStats called next reports a total of 0.
C17_Witness ==
  /\ last.op = "clear"
  /\ last.returned = 2
  /\ reply.op = "stats"
  /\ reply.stats.totalCacheSize = 0

----------------------------------------------------------------------------
(* SpecSalt: calls with a salt under every algorithm, with the cache        *)
(* enabled and disabled, and calls without a salt on texts that are an      *)
(* input followed by a salt.                                                *)

SaltOptions ==
  {[DefaultOptions EXCEPT !.hashAlgorithm = a, !.enableCache = e,
                          !.hasSalt = TRUE, !.salt = <<"s">>] :
     a \in Algorithms, e \in BOOLEAN}

SaltCalls ==
  {<<StringValue(<<"a">>), o>> : o \in SaltOptions}
  \cup {<<StringValue(<<"a", "s">>), WithAlgorithm(a, TRUE)>> :
          a \in Algorithms}
  \cup {<<StringValue(<<"b">>),
          [DefaultOptions EXCEPT !.hasSalt = TRUE, !.salt = <<" ">>]>>,
        <<StringValue(<<"a">>),
          [DefaultOptions EXCEPT !.hasSalt = TRUE,
                                 !.salt = Repeat("s", MaxSaltLength + 1)]>>}

GenerateSalt == Calls(SaltCalls)

NextSalt == GenerateSalt \/ ClearStellarIDCaches \/ ResetPerformanceMetrics

SpecSalt == Init /\ [][NextSalt]_vars

\* The options of a call without their salt.
Unsalted(options) == [options EXCEPT !.hasSalt = FALSE, !.salt = <<>>]

\* C18: a call with a non-empty salt returns the hash field and the star
\* name that a call without salt on the text input + salt returns under the
\* same algorithm and star list, made in its place or made right after it.
C18_SaltAppended ==
  [][(Succeeded(last') /\ last'.options.hasSalt /\ last'.options.salt # <<>>
        /\ validateInput(StringValue(last'.input.str \o last'.options.salt))
             = NoError) =>
       \A cache \in {hashCache, hashCache'} :
         /\ generateStellarID(cache,
              StringValue(last'.input.str \o last'.options.salt),
              Unsalted(last'.options)).hashNumber = last'.result.hashNumber
         /\ generateStellarID(cache,
              StringValue(last'.input.str \o last'.options.salt),
              Unsalted(last'.options)).starName = last'.result.starName]_vars

\* A call with input "a" and salt "s" under djb2 has returned while the
\* cache held the text "as" with the value another algorithm stored.
C18_Witness ==
  /\ Succeeded(last)
  /\ last.options.hasSalt
  /\ last.input.str \o last.options.salt = <<"a", "s">>
  /\ AlgorithmOf(last.options) = "djb2"
  /\ last.options.enableCache
  /\ <<"a", "s">> \in DOMAIN hashCache
  /\ hashCache[<<"a", "s">>] # djb2HashCompute(<<"a", "s">>)

----------------------------------------------------------------------------
(* Length 0 and negative lengths, under SpecOptions.                        *)

\* The length of the ID assembled in the default format.
DefaultFormatLength(call) ==
  Len(PrefixOf(call.options)) + 1 + 4 + 1 + Len(call.result.starName)

\* C19: a call whose length is 0 or negative is made as if no length were
\* given: it returns the assembled ID, unchanged in length.
C19_LengthIgnored ==
  (ValidInput(last) /\ last.options.hasLength /\ last.options.length <= 0
     /\ validateOptions([last.options EXCEPT !.hasLength = FALSE]) = NoError)
    => /\ last.result.error = NoError
       /\ Len(last.result.id) = DefaultFormatLength(last)

\* C19 as amended: a call whose length is 0 or negative is rejected with
\* 'Length must be between 1 and 100' and returns no ID; a call without a
\* length returns the assembled ID, unchanged in length.
C19_LengthRejectedOrAbsent ==
  /\ (ValidInput(last) /\ last.options.hasLength /\ last.options.length <= 0)
       => /\ last.result.error = "Length must be between 1 and 100"
          /\ last.result.id = <<>>
  /\ (Succeeded(last) /\ ~last.options.hasLength)
       => Len(last.result.id) = DefaultFormatLength(last)

\* A call with length 0 and nothing else wrong has been rejected after an
\* earlier call returned.
C19_Witness ==
  /\ Failed(last)
  /\ ValidInput(last)
  /\ last.options = WithLength(0)
  /\ metrics.totalGenerations > 0

----------------------------------------------------------------------------
(* The padding and the case step, under SpecFormat.                        *)

\* The ID a call assembled from the template or in the default format,
\* before the length normalisation.
AssembledID(call) ==
  AssembleID(call.input.str, call.options, PrefixOf(call.options),
             HashField(call.result.hashNumber),
             StarName(call.options, call.result.hashNumber))

\* The string of `length` characters that starts with `assembled` and has at
\* every later index p (0-based) the character alphabet[(hashNumber + p) mod
\* |alphabet|].
PaddedTo(assembled, length, hashNumber, alphabet) ==
  [i \in 1..length |->
     IF i <= Len(assembled)
       THEN assembled[i]
       ELSE alphabet[((hashNumber + (i - 1)) % Len(alphabet)) + 1]]

LengthNormalizedID(call) ==
  NormalizeLength(AssembledID(call), call.options, call.result.hashNumber)

LowerAlphabet ==
  <<"a", "b", "c", "d", "e", "f", "g", "h", "i", "j", "k", "l", "m",
    "n", "o", "p", "q", "r", "s", "t", "u", "v", "w", "x", "y", "z">>

----------------------------------------------------------------------------
(* The formula of the simple hash, under SpecHash.                         *)

\* The result of iterating hash = (factor * hash + charCode) folded to a
\* signed 32-bit integer over the first n code units of text, from 0.
RECURSIVE IterateFolded(_, _, _)
IterateFolded(factor, text, n) ==
  IF n = 0 THEN Num(0)
  ELSE ToInt32(NumAdd(Norm(IterateFolded(factor, text, n - 1).hi * factor,
                           IterateFolded(factor, text, n - 1).lo * factor),
                      Num(CharCode[text[n]])))

AbsoluteValue(a) == IF a.hi < 0 THEN Norm(0 - a.hi, 0 - a.lo) ELSE a

\* The text a call handed to its hash function.
HashedText(call) == SaltedInput(call.input.str, call.options)

\* C23 as stated: simpleHash with the cache disabled returns the absolute
\* value of the iteration hash = hash*31 - hash + charCode (that is
\* 30 * hash + charCode) folded to a signed 32-bit integer, from 0.
C23_TimesThirtyOneMinusHash ==
  (Succeeded(last) /\ AlgorithmOf(last.options) = "simple"
     /\ ~last.options.enableCache) =>
    last.result.hash =
      AbsoluteValue(IterateFolded(30, HashedText(last), Len(HashedText(last))))

\* C23 amended: simpleHash with the cache disabled returns the absolute
\* value of the iteration hash = hash*32 - hash + charCode (that is
\* 31 * hash + charCode, the value of ((hash << 5) - hash) + charCode)
\* folded to a signed 32-bit integer, from 0.
C23_TimesThirtyOne ==
  (Succeeded(last) /\ AlgorithmOf(last.options) = "simple"
     /\ ~last.options.enableCache) =>
    last.result.hash =
      AbsoluteValue(IterateFolded(31, HashedText(last), Len(HashedText(last))))

\* A call under the simple algorithm, cache disabled, on a text of ten or
\* more code units whose iteration left the 32-bit range and ended negative.
C23_Witness ==
  /\ Succeeded(last)
  /\ AlgorithmOf(last.options) = "simple"
  /\ ~last.options.enableCache
  /\ Len(HashedText(last)) >= 10
  /\ IterateFolded(31, HashedText(last), Len(HashedText(last))).hi < 0
  /\ last.result.hash.hi > 0

----------------------------------------------------------------------------
(* SpecMonitor: calls of generateStellarID and generateStellarIDAsync on    *)
(* "a" under every algorithm with and without the cache, on the text       *)
(* "simple:a" and on the empty text, mixed with cache clears, resets and   *)
(* reads of the performance metrics whose result the caller writes to.     *)

MonitorCalls ==
  {<<StringValue(<<"a">>), WithAlgorithm(a, e)>> :
     a \in Algorithms, e \in BOOLEAN}
  \cup {<<StringValue(<<"s", "i", "m", "p", "l", "e", ":", "a">>),
          DefaultOptions>>,
        <<StringValue(<<>>), DefaultOptions>>}

GenerateMonitor == Calls(MonitorCalls)

GenerateMonitorAsync ==
  \E call \in MonitorCalls : GenerateStellarIDAsync(call[1], call[2])

WriteReturnedMetrics ==
  \E counter \in {"totalGenerations", "cacheHits"} :
    SetReturnedMetric(counter, 7)

NextMonitor ==
  \/ GenerateMonitor
  \/ GenerateMonitorAsync
  \/ ClearStellarIDCaches
  \/ ResetPerformanceMetrics
  \/ GetPerformanceMetrics
  \/ WriteReturnedMetrics

SpecMonitor == Init /\ [][NextMonitor]_vars

\* The step is a call of generateStellarID that returned an ID.
ReturnedStep ==
  last'.op = "generate" /\ reply'.op = "none"
    /\ last'.result.error = NoError

\* The step is a call of generateStellarID that threw.
ThrownStep ==
  last'.op = "generate" /\ reply'.op = "none"
    /\ last'.result.error # NoError

\* The step is a call of generateStellarIDAsync.
AsyncStep == last'.op = "generateAsync" /\ reply'.op = "none"

\* C26: in every cache state, for every input and options (enableCache:
\* false included), generateStellarIDAsync resolves to the ID that
\* generateStellarID returns for the same call in that cache state, and
\* rejects exactly when generateStellarID throws, with the same error.
C26_SyncAsyncEquivalence ==
  [][AsyncStep =>
       /\ last'.result.error
            = generateStellarID(hashCache, last'.input, last'.options).error
       /\ last'.result.id
            = generateStellarID(hashCache, last'.input, last'.options).id]_vars

\* C27: a call with enableCache: false that returns leaves hashCache with
\* the entries it had, returns the ID computed from a freshly computed hash,
\* and does not read hashCache: what it records in the performance monitor
\* is the miss of a call that computed its hash, whatever the cache holds.
C27_DisabledCacheInert ==
  [][(ReturnedStep /\ ~last'.options.enableCache) =>
       /\ hashCache' = hashCache
       /\ last'.result.id
            = generateStellarID(EmptyCache, last'.input, last'.options).id
       /\ last'.result.hash
            = generateStellarID(EmptyCache, last'.input, last'.options).hash
       /\ metrics' = [metrics EXCEPT
                        !.totalGenerations = metrics.totalGenerations + 1,
                        !.cacheMisses = metrics.cacheMisses + 1]]_vars

\* C28: a call that returns records a cache hit exactly when its hash was
\* served from hashCache, that is when enableCache is true and the salted
\* input was cached before the call, and a miss otherwise; so each
\* repetition of a cached call raises cacheHits by one.
C28_CacheHitAccounting ==
  [][ReturnedStep =>
       IF last'.options.enableCache
            /\ HashedText(last') \in DOMAIN hashCache
         THEN /\ metrics'.cacheHits = metrics.cacheHits + 1
              /\ metrics'.cacheMisses = metrics.cacheMisses
         ELSE /\ metrics'.cacheHits = metrics.cacheHits
              /\ metrics'.cacheMisses = metrics.cacheMisses + 1]_vars

\* C29: totalGenerations = cacheHits + cacheMisses in every state; a call
\* that returns an ID raises totalGenerations by one and a call that throws
\* leaves the counters alone, so totalGenerations counts the calls that
\* returned since the last reset; resetPerformanceMetrics sets the three
\* counters to 0; getPerformanceMetrics returns the values of the counters
\* in an object of its own, and a write to that object leaves the counters
\* of the monitor as they were.
C29_MetricsInvariant ==
  /\ [](metrics.totalGenerations = metrics.cacheHits + metrics.cacheMisses)
  /\ [][/\ ReturnedStep =>
              metrics'.totalGenerations = metrics.totalGenerations + 1
        /\ ThrownStep => metrics' = metrics
        /\ (last'.op = "reset" /\ reply'.op = "none") =>
              metrics' = ZeroMetrics
        /\ reply'.op = "metrics" =>
              (reply'.metrics.value = metrics /\ metrics' = metrics)
        /\ reply'.op = "metricsWritten" => metrics' = metrics
        /\ (~ReturnedStep /\ ~(last'.op = "reset" /\ reply'.op = "none")) =>
              metrics' = metrics]_vars

\* Two calls returned since the last reset, and the caller wrote to the
\* object getPerformanceMetrics returned: the object differs from the
\* counters of the monitor.
C29_Witness ==
  /\ metrics.totalGenerations = 2
  /\ metrics.cacheMisses >= 1
  /\ reply.op = "metricsWritten"
  /\ reply.metrics.value.totalGenerations = 7
  /\ last.op = "generate"

----------------------------------------------------------------------------
(* SpecBatch: two calls of generateBatchStellarIDs on lists of "a", "b" and *)
(* the empty text, under the simple and the djb2 algorithm, with and        *)
(* without the cache, without a progressCallback and with one that returns  *)
(* or throws, in every interleaving of their steps.                         *)

BatchInputs ==
  {<<StringValue(<<"a">>), StringValue(<<"b">>)>>,
   <<StringValue(<<"b">>), StringValue(<<"a">>)>>,
   <<StringValue(<<"a">>), StringValue(<<>>), StringValue(<<"b">>)>>,
   <<StringValue(<<>>), StringValue(<<"b">>)>>}

BatchOptions ==
  {WithAlgorithm("simple", TRUE), WithAlgorithm("djb2", TRUE),
   WithAlgorithm("simple", FALSE)}

\* No progressCallback, one that returns, one that throws at the second
\* item, one that throws at every item.
BatchCallbacks ==
  {<<FALSE, {}>>, <<TRUE, {}>>, <<TRUE, {2}>>, <<TRUE, {1, 2, 3}>>}

StartBatch ==
  \E b \in BatchIds, inputs \in BatchInputs, options \in BatchOptions,
     callback \in BatchCallbacks :
    GenerateBatchStellarIDs(b, inputs, options, callback[1], callback[2])

ResumeBatch == \E b \in BatchIds : ResumeBatchStellarIDs(b)

NextBatch == StartBatch \/ ResumeBatch

SpecBatch == Init /\ [][NextBatch]_vars

\* The inputs of a list that generateStellarID accepts, and those it
\* rejects, in the order of the list.
AcceptedInputs(inputs) ==
  LET Accepted(input) == validateInput(input) = NoError
  IN  SelectSeq(inputs, Accepted)

RejectedInputs(inputs) ==
  LET Rejected(input) == validateInput(input) # NoError
  IN  SelectSeq(inputs, Rejected)

\* C24: a call that returned gave every input exactly one outcome: ids holds
\* one ID per accepted input, in input order (the ID of that input, where
\* the cache is disabled), errors holds one entry per rejected input, in
\* input order, and ids.length + errors.length = inputs.length; with or
\* without a progressCallback, whether it returns or throws.
C24_BatchAccounting ==
  \A b \in BatchIds :
    batches[b].state = "done" =>
      /\ Len(batches[b].results) + Len(batches[b].errors)
           = Len(batches[b].inputs)
      /\ Len(batches[b].results) = Len(AcceptedInputs(batches[b].inputs))
      /\ [k \in 1..Len(batches[b].errors) |-> batches[b].errors[k].input]
           = RejectedInputs(batches[b].inputs)
      /\ ~batches[b].options.enableCache =>
           batches[b].results =
             [k \in 1..Len(AcceptedInputs(batches[b].inputs)) |->
                generateStellarID(EmptyCache,
                                  AcceptedInputs(batches[b].inputs)[k],
                                  batches[b].options).id]

\* The call run alone from the state `cache`, m: every step of it, to its
\* return.
RECURSIVE RunToReturn(_)
RunToReturn(out) ==
  IF out.batch.state = "done" THEN out
  ELSE RunToReturn(generateBatchLoop(out.cache, out.metrics, out.batch))

RunAlone(batch) ==
  RunToReturn([cache |-> EmptyCache, metrics |-> ZeroMetrics,
               batch |-> [batch EXCEPT !.state = "awaiting", !.i = 0,
                                       !.results = <<>>, !.errors = <<>>]])

\* C25: two calls that overlap in time, under different hash algorithms and
\* with an input in common, each return the ids they return when run alone
\* on an empty cache, in every interleaving of their steps.
C25_InterleavingIndependence ==
  (/\ \A b \in BatchIds : batches[b].state = "done"
   /\ \E b \in BatchIds : batches[b].overlapped
   /\ AlgorithmOf(batches[1].options) # AlgorithmOf(batches[2].options)
   /\ \E j \in 1..Len(batches[1].inputs), k \in 1..Len(batches[2].inputs) :
        batches[1].inputs[j] = batches[2].inputs[k]) =>
    \A b \in BatchIds : batches[b].results = RunAlone(batches[b]).batch.results

----------------------------------------------------------------------------
(* SpecURL: generateStellarURL on accepted and rejected IDs, with domains, *)
(* subdomains, paths and passwords present or absent, followed by          *)
(* extractStellarIDFromURL on the short URL.                               *)

UrlIDs ==
  {<<"S", "T", "A", "R", "-", "1", "2", "3", "4", "-", "V", "E", "G", "A">>,
   <<"M", "Y", "_", "A", "P", "P", "-", "0", "0", "9", "7", "-", "A", "R", "C", "T", "U", "R", "U", "S">>,
   <<"s", "t", "a", "r", "-", "1", "2", "3", "4", "-", "v", "e", "g", "a">>,
   <<"S", "T", "A", "R", "-", "1", "2", "-", "V", "E", "G", "A">>,
   <<>>}

\* The default configuration, one without analytics, and configurations
\* that set a domain, a subdomain, a path or a password, or all four.
UrlConfigs ==
  {DefaultConfig,
   [DefaultConfig EXCEPT !.analytics = FALSE],
   [DefaultConfig EXCEPT !.hasDomain = TRUE, !.domain = <<"m", "y", ".", "o", "r", "g">>],
   [DefaultConfig EXCEPT !.hasDomain = TRUE, !.domain = <<"a", " ", "b">>],
   [DefaultConfig EXCEPT !.hasSubdomain = TRUE, !.subdomain = <<"b", "r", "a", "n", "d">>],
   [DefaultConfig EXCEPT !.hasPath = TRUE, !.path = <<"t", "e", "m", "p">>],
   [DefaultConfig EXCEPT !.hasPath = TRUE, !.path = <<"S", "T", "A", "R", "-", "0", "0", "0", "0", "-", "V", "E", "G", "A">>],
   [DefaultConfig EXCEPT !.hasPath = TRUE, !.path = <<"a", "?", "b">>],
   [DefaultConfig EXCEPT !.hasPassword = TRUE, !.password = <<"s", "e", "c", "r", "e", "t", "1", "2", "3">>],
   [DefaultConfig EXCEPT !.hasPassword = TRUE, !.password = <<"a", " ", "b">>],
   [DefaultConfig EXCEPT !.hasDomain = TRUE, !.domain = <<"m", "y", ".", "o", "r", "g">>,
                         !.hasSubdomain = TRUE, !.subdomain = <<"b", "r", "a", "n", "d">>,
                         !.hasPath = TRUE, !.path = <<"t", "e", "m", "p">>,
                         !.hasPassword = TRUE, !.password = <<"s", "e", "c", "r", "e", "t", "1", "2", "3">>]}

GenerateURL ==
  \E id \in UrlIDs, config \in UrlConfigs : GenerateStellarURL(id, config)

NextURL == GenerateURL \/ ExtractStellarIDFromURL \/ ClearStellarIDCaches

SpecURL == Init /\ [][NextURL]_vars

\* C30: generateStellarURL rejects every ID that validateStellarID rejects,
\* and for an ID it accepts, with any domain, subdomain, path and password,
\* extractStellarIDFromURL of the short URL returns that ID.
C30_UrlRoundTrip ==
  /\ (reply.op = "url" /\ reply.valid) => validateStellarID(reply.id)
  /\ reply.op = "extractUrl" =>
       (~reply.extracted.isNull /\ reply.extracted.id = reply.id)

====
